---- MODULE Spec2Model ----
(***************************************************************************)
(* A model of the risk calculation engine of the ai-finance backend:       *)
(* the VaR service and its endpoint, the SA-CCR service and the PFE        *)
(* service.                                                                 *)
(*                                                                          *)
(* Numbers.  The services compute with floats.  Here a real x is the        *)
(* integer x * SCALE (fixed point, three decimals); FMul, FDiv, FSqrt and   *)
(* FExp compute on that representation and truncate toward zero.  The       *)
(* tables of the code (supervisory factors, z-scores, adjustment factors)   *)
(* are exact in this representation.                                        *)
(***************************************************************************)
EXTENDS Integers, Sequences, FiniteSets, TLC

\* ------------------------------------------------------------------------
\* Fixed-point arithmetic
\* ------------------------------------------------------------------------
SCALE == 10 * 10 * 10

Abs(x) == IF x < 0 THEN -x ELSE x

Sign(x) == IF x < 0 THEN -1 ELSE 1

Min(a, b) == IF a <= b THEN a ELSE b

Max(a, b) == IF a >= b THEN a ELSE b

\* a * b, both fixed point.  The product is split so that no intermediate
\* value exceeds the range of the checker's integers.
FMul(a, b) ==
    LET x  == Abs(a)
        y  == Abs(b)
        xi == x \div SCALE
        xf == x % SCALE
        yi == y \div SCALE
        yf == y % SCALE
    IN  Sign(a) * Sign(b) * (xi * yi * SCALE + xi * yf + xf * yi + (xf * yf) \div SCALE)

\* a / b, both fixed point, b # 0.
FDiv(a, b) ==
    LET x == Abs(a)
        y == Abs(b)
    IN  Sign(a) * Sign(b) * ((x \div y) * SCALE + ((x % y) * SCALE) \div y)

RECURSIVE IsqrtIter(_, _)
IsqrtIter(n, x) ==
    LET y == (x + n \div x) \div 2
    IN  IF y >= x THEN x ELSE IsqrtIter(n, y)

\* floor of the square root of a natural number (Newton's iteration)
Isqrt(n) == IF n = 0 THEN 0 ELSE IsqrtIter(n, n)

\* math.sqrt(a), a >= 0 fixed point
FSqrt(a) == Isqrt(a * SCALE)

\* a / k for an integer k > 0, truncated toward zero
TDiv(a, k) == Sign(a) * (Abs(a) \div k)

RECURSIVE ExpSeries(_, _, _, _)
ExpSeries(x, k, term, acc) ==
    IF k > 40 \/ term = 0 THEN acc
    ELSE LET t == TDiv(FMul(term, x), k)
         IN  ExpSeries(x, k + 1, t, acc + t)

\* math.exp(x), x fixed point: the Taylor series around 0 for x >= 0, its
\* reciprocal for x < 0
FExp(x) ==
    IF x >= 0 THEN ExpSeries(x, 1, SCALE, SCALE)
    ELSE FDiv(SCALE, ExpSeries(-x, 1, SCALE, SCALE))

\* The sequence a function on 1..n stands for, with its values computed
Tuple(f) == f \o <<>>

RECURSIVE SumSeq(_)
SumSeq(s) == IF s = <<>> THEN 0 ELSE Head(s) + SumSeq(Tail(s))

\* A float that is not finite (nan or +-inf), as numpy produces on a
\* division by zero; it propagates through every numpy operation.
NonFinite == 0 - 1000000 * SCALE

\* numpy division: a division by zero warns and yields nan or inf
NpDiv(a, b) ==
    IF a = NonFinite \/ b = NonFinite \/ b = 0 THEN NonFinite ELSE FDiv(a, b)

NpMul(a, b) ==
    IF a = NonFinite \/ b = NonFinite THEN NonFinite ELSE FMul(a, b)

NpSub(a, b) ==
    IF a = NonFinite \/ b = NonFinite THEN NonFinite ELSE a - b

\* Optional[float]: <<>> is None, <<v>> is the value v
None == <<>>

Some(v) == <<v>>

\* ------------------------------------------------------------------------
\* VaR service: tables (services/var.py)
\* ------------------------------------------------------------------------
ConfidenceLevels == {"90%", "95%", "97.5%", "99%"}

TimeHorizons == {"1d", "10d", "1m", "3m"}

Methods == {"parametric", "historical", "monte_carlo"}

CONFIDENCE_LEVELS(cl) ==
    CASE cl = "90%"   -> 1282
      [] cl = "95%"   -> 1645
      [] cl = "97.5%" -> 1960
      [] cl = "99%"   -> 2326

TIME_HORIZON_FACTORS(th) ==
    CASE th = "1d"  -> SCALE
      [] th = "10d" -> FSqrt(10 * SCALE)
      [] th = "1m"  -> FSqrt(22 * SCALE)
      [] th = "3m"  -> FSqrt(66 * SCALE)

\* float(confidence_level.value.strip('%')) / 100
ConfidencePercentile(cl) ==
    CASE cl = "90%"   -> 900
      [] cl = "95%"   -> 950
      [] cl = "97.5%" -> 975
      [] cl = "99%"   -> 990

\* math.sqrt(252)
Sqrt252 == FSqrt(252 * SCALE)

DefaultVolatility == 200

DefaultCorrelation == 500

StressScenarioNames == <<"Market Crash", "Interest Rate Spike", "Liquidity Crisis">>

\* STRESS_SCENARIOS[k]["volatility_multiplier"]
VolatilityMultiplier(k) == <<3000, 2000, 2500>>[k]

\* STRESS_SCENARIOS[k]["correlation_increase"]
CorrelationIncrease(k) == <<200, 100, 300>>[k]

\* STRESS_SCENARIOS[k]["asset_class_impacts"][ac], 1.0 when the scenario has
\* no table or no entry for the class
AssetClassImpact(k, ac) ==
    CASE k = 2 /\ ac = "interest_rate" -> 2500
      [] k = 2 /\ ac = "equity"        -> 1500
      [] k = 2 /\ ac = "fx"            -> 1200
      [] k = 2 /\ ac = "commodity"     -> 1000
      [] k = 2 /\ ac = "crypto"        -> 1300
      [] k = 3 /\ ac = "interest_rate" -> 1500
      [] k = 3 /\ ac = "equity"        -> 2000
      [] k = 3 /\ ac = "fx"            -> 1800
      [] k = 3 /\ ac = "commodity"     -> 1500
      [] k = 3 /\ ac = "crypto"        -> 3000
      [] OTHER                         -> SCALE

\* ------------------------------------------------------------------------
\* VaR service: parametric method
\* ------------------------------------------------------------------------
PositionValue(p) == FMul(p.quantity, p.price)

PositionVolatility(p) ==
    IF p.volatility = None THEN DefaultVolatility ELSE p.volatility[1]

calculate_portfolio_value(positions) ==
    SumSeq(Tuple([i \in 1..Len(positions) |-> PositionValue(positions[i])]))

\* The loop that overrides the default matrix with the supplied values:
\* k runs over the pairs (i, j) in the order of the two nested loops.
RECURSIVE CorrelationLoop(_, _, _)
CorrelationLoop(positions, k, m) ==
    LET n == Len(positions)
    IN  IF k >= n * n THEN m
        ELSE LET i  == (k \div n) + 1
                 j  == (k % n) + 1
                 ci == positions[i].correlation
                 id == positions[j].id
             IN  CorrelationLoop(positions, k + 1,
                    IF id \in DOMAIN ci
                    THEN [[m EXCEPT ![i][j] = ci[id]] EXCEPT ![j][i] = ci[id]]
                    ELSE m)

correlation_matrix(positions) ==
    LET n == Len(positions)
    IN  CorrelationLoop(positions, 0,
            Tuple([i \in 1..n |->
                Tuple([j \in 1..n |-> IF i = j THEN SCALE ELSE DefaultCorrelation])]))

\* np.outer(np.sqrt(variance_vector), np.sqrt(variance_vector)) * correlation_matrix
variance_matrix(positions) ==
    LET n  == Len(positions)
        sd == Tuple([i \in 1..n |->
                 FSqrt(FMul(PositionVolatility(positions[i]),
                            PositionVolatility(positions[i])))])
        cm == correlation_matrix(positions)
    IN  Tuple([i \in 1..n |->
            Tuple([j \in 1..n |-> FMul(FMul(sd[i], sd[j]), cm[i][j])])])

\* position_values / portfolio_value (numpy: no failure on an empty array)
Weights(positions) ==
    LET pv == calculate_portfolio_value(positions)
    IN  Tuple([i \in 1..Len(positions) |-> FDiv(PositionValue(positions[i]), pv)])

\* weights.T @ variance_matrix @ weights
portfolio_variance(positions) ==
    LET n  == Len(positions)
        w  == Weights(positions)
        vm == variance_matrix(positions)
        row == Tuple([i \in 1..n |->
                   SumSeq(Tuple([j \in 1..n |-> FMul(w[j], vm[j][i])]))])
    IN  SumSeq(Tuple([i \in 1..n |-> FMul(row[i], w[i])]))

\* position_value * position_volatility * z_score * time_factor / math.sqrt(252)
PositionVar(p, cl, th) ==
    FDiv(FMul(FMul(FMul(PositionValue(p), PositionVolatility(p)),
                   CONFIDENCE_LEVELS(cl)), TIME_HORIZON_FACTORS(th)), Sqrt252)

\* portfolio_value * math.sqrt(portfolio_variance) * z_score * time_factor / math.sqrt(252)
DiversifiedVar(positions, cl, th) ==
    FDiv(FMul(FMul(FMul(calculate_portfolio_value(positions),
                        FSqrt(portfolio_variance(positions))),
                   CONFIDENCE_LEVELS(cl)), TIME_HORIZON_FACTORS(th)), Sqrt252)

\* Lines 186-202: the marginal contribution to risk, the component VaR and
\* its percentage of the diversified VaR, for position i.
ComponentVar(positions, cl, th, i) ==
    LET n    == Len(positions)
        w    == Weights(positions)
        vm   == variance_matrix(positions)
        dvar == DiversifiedVar(positions, cl, th)
        sum  == SumSeq(Tuple([j \in 1..n |-> FMul(w[j], vm[i][j])]))
        mcr  == NpDiv(sum, FSqrt(portfolio_variance(positions)))
    IN  NpMul(NpMul(w[i], mcr), dvar)

AssetContribution(positions, cl, th, i) ==
    LET c == ComponentVar(positions, cl, th, i)
    IN  [asset_id |-> positions[i].id,
         var_contribution |-> c,
         var_contribution_percentage |->
             NpMul(NpDiv(c, DiversifiedVar(positions, cl, th)), 100 * SCALE)]

\* calculate_parametric_var: math.sqrt raises ValueError on a negative
\* portfolio variance; otherwise (VaR, contributions, benefit).
calculate_parametric_var(positions, cl, th) ==
    IF portfolio_variance(positions) < 0
    THEN [status |-> "ValueError", var |-> 0, asset_contributions |-> <<>>,
          diversification_benefit |-> 0, returns |-> <<>>]
    ELSE [status |-> "ok",
          var |-> DiversifiedVar(positions, cl, th),
          asset_contributions |->
              Tuple([i \in 1..Len(positions) |->
                        AssetContribution(positions, cl, th, i)]),
          diversification_benefit |->
              SumSeq(Tuple([i \in 1..Len(positions) |->
                               PositionVar(positions[i], cl, th)]))
                  - DiversifiedVar(positions, cl, th),
          returns |-> <<>>]

\* ------------------------------------------------------------------------
\* The process-wide numpy generator (np.random)
\* ------------------------------------------------------------------------
\* MODEL BOUNDS.  The code draws num_days = 500 values per position and
\* num_simulations >= 1000 vectors; the model draws DayDraws values per 100
\* days and SimDraws vectors per 1000 simulations.
MaxPositions == 2

DayDraws == 1

SimDraws == 2

\* The state of the global generator: which seed it was last given ("os"
\* is the entropy seed of the interpreter start) and how many values were
\* drawn since.
FreshRng == [seed |-> "os", pos |-> 0]

\* A seeding that leaves the generator where the calls before left it
Seed42_Kept(g) == g

\* np.random.seed(42)
Seed42(g) == [seed |-> "42", pos |-> 0]

\* The standard normal values of the generator seeded with 42, in the order
\* drawn (three decimals); the model repeats them after the 30th.
Stream42 ==
    << 497, -138, 648, 1523, -234, -234, 1579, 767, -469, 543,
       -463, -466, 242, -1913, -1725, -562, -1013, 314, -908, -1412,
       1466, -226, 68, -1425, -544, 111, -1151, 376, -601, -292 >>

\* What an unseeded process draws is not determined by the program; the
\* model gives it a stream of its own.
StreamOs ==
    << -602, 1852, -13, -1058, 823, -1221, 209, -1960, -1328, 197,
       738, 171, -116, -301, -1479, -720, -461, 1057, 344, -1763 >>

\* The k-th value (k = 0, 1, ...) drawn from generator state g
GaussAt(g, k) ==
    IF g.seed = "42"
    THEN Stream42[((g.pos + k) % Len(Stream42)) + 1]
    ELSE StreamOs[((g.pos + k) % Len(StreamOs)) + 1]

\* np.random.normal(0, sigma, count): the values, and the generator moved on
Normal(g, sigma, count) ==
    Tuple([k \in 1..count |-> FMul(sigma, GaussAt(g, k - 1))])

Advance(g, count) == [g EXCEPT !.pos = g.pos + count]

\* ------------------------------------------------------------------------
\* Statistics on return series (numpy)
\* ------------------------------------------------------------------------
RECURSIVE InsertSorted(_, _)
InsertSorted(s, x) ==
    IF s = <<>> THEN <<x>>
    ELSE IF x <= Head(s) THEN <<x>> \o s
    ELSE <<Head(s)>> \o InsertSorted(Tail(s), x)

RECURSIVE NpSort(_)
\* np.sort: ascending
NpSort(s) == IF s = <<>> THEN <<>> ELSE InsertSorted(NpSort(Tail(s)), Head(s))

\* np.mean
MeanSeq(s) == TDiv(SumSeq(s), Len(s))

\* np.std (population standard deviation)
StdSeq(s) ==
    LET m == MeanSeq(s)
    IN  FSqrt(TDiv(SumSeq(Tuple([i \in 1..Len(s) |-> FMul(s[i] - m, s[i] - m)])),
                   Len(s)))

\* np.corrcoef(a, b)[0, 1]; nan when a series is constant
Corrcoef(a, b) ==
    LET ma  == MeanSeq(a)
        mb  == MeanSeq(b)
        cov == TDiv(SumSeq(Tuple([i \in 1..Len(a) |-> FMul(a[i] - ma, b[i] - mb)])),
                    Len(a))
    IN  NpDiv(cov, FMul(StdSeq(a), StdSeq(b)))

\* beta = corrcoef(asset, portfolio) * (std(asset) / std(portfolio))
Beta(asset_returns, portfolio_returns) ==
    NpMul(Corrcoef(asset_returns, portfolio_returns),
          NpDiv(StdSeq(asset_returns), StdSeq(portfolio_returns)))

\* int(count * (1 - confidence_percentile))
VarIndex(count, cl) == (count * (SCALE - ConfidencePercentile(cl))) \div SCALE

\* Lines 261-326 and 403-467, shared by the two simulation methods: from
\* the per-position return series (numpy arrays) to VaR, benefit and
\* contributions.  series[j] is the return series of position j.  Return
\* series are held in percent (the code's fractions times 100), which three
\* decimals resolve; the VaR figures divide the factor out again.
SimulationResult(positions, cl, th, series, count) ==
    LET n      == Len(positions)
        pv     == calculate_portfolio_value(positions)
        tf     == TIME_HORIZON_FACTORS(th)
        port   == Tuple([d \in 1..count |->
                     SumSeq(Tuple([j \in 1..n |->
                         FMul(FDiv(PositionValue(positions[j]), pv), series[j][d])]))])
        idx    == VarIndex(count, cl) + 1
        var    == TDiv(FMul(FMul(pv, -(NpSort(port)[idx])), tf), 100)
        avar   == Tuple([j \in 1..n |->
                     TDiv(FMul(FMul(PositionValue(positions[j]),
                                    -(NpSort(series[j])[idx])), tf), 100)])
        comp   == Tuple([j \in 1..n |->
                     NpMul(NpMul(FDiv(PositionValue(positions[j]), pv),
                                 Beta(series[j], port)), var)])
    IN  [status |-> "ok",
         var |-> var,
         asset_contributions |->
             Tuple([j \in 1..n |->
                 [asset_id |-> positions[j].id,
                  var_contribution |-> comp[j],
                  var_contribution_percentage |->
                      NpMul(NpDiv(comp[j], var), 100 * SCALE)]]),
         diversification_benefit |-> SumSeq(avar) - var,
         returns |-> port]

\* ------------------------------------------------------------------------
\* VaR service: historical method
\* ------------------------------------------------------------------------
\* num_days = 500
NumDays == 500

\* the length of the modelled series
HistCount == (NumDays * DayDraws) \div 100

\* position_volatility / math.sqrt(252), in percent
DailyVolatility(p) == FDiv(PositionVolatility(p) * 100, Sqrt252)

\* Lines 240-250: one np.random.normal call per position, each drawing the
\* whole series of that position from generator state g.
HistoricalReturns(positions, g) ==
    Tuple([j \in 1..Len(positions) |->
        Normal(Advance(g, (j - 1) * HistCount),
               DailyVolatility(positions[j]), HistCount)])

\* calculate_historical_var, from the generator state g it finds: the
\* result and the generator state it leaves.
calculate_historical_var(positions, cl, th, g) ==
    LET g1 == Seed42(g)
    IN  [result |-> SimulationResult(positions, cl, th,
                        HistoricalReturns(positions, g1), HistCount),
         rng    |-> Advance(g1, Len(positions) * HistCount)]

\* ------------------------------------------------------------------------
\* VaR service: Monte Carlo method
\* ------------------------------------------------------------------------
\* np.linalg.cholesky: the lower factor, entry by entry in row order; it
\* raises LinAlgError when a pivot is not positive.
RECURSIVE CholeskyLoop(_, _, _, _)
CholeskyLoop(a, n, k, l) ==
    IF k >= n * n THEN [ok |-> TRUE, l |-> l]
    ELSE LET i == (k \div n) + 1
             j == (k % n) + 1
             s == SumSeq(Tuple([c \in 1..(j - 1) |-> FMul(l[i][c], l[j][c])]))
         IN  IF j > i THEN CholeskyLoop(a, n, k + 1, l)
             ELSE IF i = j
                  THEN IF a[i][i] - s <= 0
                       THEN [ok |-> FALSE, l |-> l]
                       ELSE CholeskyLoop(a, n, k + 1,
                                [l EXCEPT ![i][i] = FSqrt(a[i][i] - s)])
                  ELSE CholeskyLoop(a, n, k + 1,
                           [l EXCEPT ![i][j] = FDiv(a[i][j] - s, l[j][j])])

Cholesky(a, n) ==
    CholeskyLoop(a, n, 0, Tuple([i \in 1..n |-> Tuple([j \in 1..n |-> 0])]))

\* the number of modelled simulations for num_simulations of the code
SimCount(num_simulations) == (num_simulations * SimDraws) \div 1000

\* Lines 383-385: simulation s draws z = np.random.normal(0, 1, n); the z
\* of count simulations drawn one after the other from generator state g
NormalDraws(g, n, count) ==
    Tuple([s \in 1..count |-> Normal(Advance(g, (s - 1) * n), SCALE, n)])

\* Lines 386-393: the return of position j in simulation s is
\* (cholesky @ z)[j] * daily_volatility[j].
MonteCarloSeries(positions, l, z) ==
    LET n == Len(positions)
    IN  Tuple([j \in 1..n |->
            Tuple([s \in 1..Len(z) |->
                FMul(SumSeq(Tuple([c \in 1..n |-> FMul(l[j][c], z[s][c])])),
                     DailyVolatility(positions[j]))])])

MonteCarloReturns(positions, l, g, count) ==
    MonteCarloSeries(positions, l, NormalDraws(g, Len(positions), count))

Failure(kind) == [status |-> kind]

\* calculate_monte_carlo_var, from the generator state g it finds
\* num_simulations is Some(the count) or None: with None the arrays of lines
\* 380-381 cannot be built and range(None) cannot be run (TypeError), after
\* the generator was seeded.
calculate_monte_carlo_var(positions, cl, th, num_simulations, g) ==
    LET n  == Len(positions)
        ch == Cholesky(correlation_matrix(positions), n)
        g1 == Seed42(g)
        count == SimCount(num_simulations[1])
    IN  IF ~ch.ok
        THEN [result |-> Failure("LinAlgError"), rng |-> g]
        ELSE IF num_simulations = None
        THEN [result |-> Failure("TypeError"), rng |-> g1]
        ELSE [result |-> SimulationResult(positions, cl, th,
                             MonteCarloReturns(positions, ch.l, g1, count), count),
              rng    |-> Advance(g1, count * n)]

\* ------------------------------------------------------------------------
\* VaR service: stress scenarios
\* ------------------------------------------------------------------------
\* num_simulations=5000
StressSimulations == 5000

\* Lines 494-522: the stressed copy of a position under scenario k
StressedPosition(p, k) ==
    [p EXCEPT
        !.volatility =
            IF p.volatility = None THEN None
            ELSE Some(FMul(FMul(p.volatility[1], VolatilityMultiplier(k)),
                           AssetClassImpact(k, p.asset_class))),
        !.correlation =
            [id \in DOMAIN p.correlation |->
                Min(SCALE, p.correlation[id] + CorrelationIncrease(k))]]

StressedPortfolio(positions, k) ==
    Tuple([i \in 1..Len(positions) |-> StressedPosition(positions[i], k)])

\* Lines 540-552: the entry appended for scenario k from its Monte Carlo VaR
StressEntry(k, stressed_var, base_var) ==
    [name |-> StressScenarioNames[k],
     var |-> stressed_var,
     var_increase |-> NpSub(stressed_var, base_var),
     var_increase_percentage |->
         NpMul(NpDiv(NpSub(stressed_var, base_var), base_var), 100 * SCALE)]

\* The loop over STRESS_SCENARIOS from scenario k on; acc holds the entries
\* appended so far.  A failing Monte Carlo run ends the loop with its error.
RECURSIVE StressLoop(_, _, _, _, _, _, _)
RECURSIVE StressStep(_, _, _, _, _, _, _)
StressStep(positions, cl, th, base_var, k, acc, mc) ==
    IF mc.result.status # "ok"
    THEN [status |-> mc.result.status, scenarios |-> acc, rng |-> mc.rng]
    ELSE StressLoop(positions, cl, th, base_var, k + 1,
                    Append(acc, StressEntry(k, mc.result.var, base_var)), mc.rng)

StressLoop(positions, cl, th, base_var, k, acc, g) ==
    IF k > Len(StressScenarioNames)
    THEN [status |-> "ok", scenarios |-> acc, rng |-> g]
    ELSE IF Len(positions) = 0
    THEN StressLoop(positions, cl, th, base_var, k + 1, acc, g)
    ELSE StressStep(positions, cl, th, base_var, k, acc,
                    calculate_monte_carlo_var(StressedPortfolio(positions, k),
                                              cl, th, Some(StressSimulations), g))

calculate_stress_scenarios(positions, cl, th, base_var, g) ==
    StressLoop(positions, cl, th, base_var, 1, <<>>, g)

\* ------------------------------------------------------------------------
\* VaR service: calculate_var
\* ------------------------------------------------------------------------
\* Lines 578-613: the method's own routine
BaseVar(input, g) ==
    CASE input.method = "parametric" ->
            [result |-> calculate_parametric_var(input.positions,
                            input.confidence_level, input.time_horizon),
             rng    |-> g]
      [] input.method = "historical" ->
            calculate_historical_var(input.positions, input.confidence_level,
                                     input.time_horizon, g)
      [] input.method = "monte_carlo" ->
            calculate_monte_carlo_var(input.positions, input.confidence_level,
                                      input.time_horizon, input.num_simulations, g)

\* Line 616.  The parametric figures are Python floats, whose division by
\* zero raises; the simulated figures are numpy floats.
VarPercentage(input, base) ==
    LET pv == calculate_portfolio_value(input.positions)
    IN  IF input.method = "parametric"
        THEN IF pv = 0 THEN Failure("ZeroDivisionError")
             ELSE [status |-> "ok", v |-> FMul(FDiv(base.var, pv), 100 * SCALE)]
        ELSE [status |-> "ok", v |-> NpMul(NpDiv(base.var, pv), 100 * SCALE)]

\* Line 619
DiversificationBenefitPercentage(input, base) ==
    LET den == base.var + base.diversification_benefit
    IN  IF input.method = "parametric"
        THEN IF den = 0 THEN Failure("ZeroDivisionError")
             ELSE [status |-> "ok",
                   v |-> FMul(FDiv(base.diversification_benefit, den), 100 * SCALE)]
        ELSE [status |-> "ok",
              v |-> NpMul(NpDiv(base.diversification_benefit, den), 100 * SCALE)]

\* Lines 621-647: the VaRResult built from the method's figures, the two
\* percentages and the stress scenarios (st is read only when they are asked
\* for), or the exception one of them raised.
VaRResult(input, base, vp, dbp, st) ==
    IF vp.status # "ok"
    THEN [outcome |-> Failure(vp.status), rng |-> base.rng]
    ELSE IF dbp.status # "ok"
    THEN [outcome |-> Failure(dbp.status), rng |-> base.rng]
    ELSE IF input.include_stress_scenarios /\ st.status # "ok"
    THEN [outcome |-> Failure(st.status), rng |-> st.rng]
    ELSE [outcome |->
             [status |-> "ok",
              var |-> base.result.var,
              var_percentage |-> vp.v,
              portfolio_value |-> calculate_portfolio_value(input.positions),
              asset_contributions |-> base.result.asset_contributions,
              diversification_benefit |-> base.result.diversification_benefit,
              diversification_benefit_percentage |-> dbp.v,
              returns |-> base.result.returns,
              stress_scenarios |->
                  IF input.include_stress_scenarios
                  THEN Some(st.scenarios) ELSE None],
          rng |-> IF input.include_stress_scenarios THEN st.rng ELSE base.rng]

\* Lines 615-633: what follows the method's own routine
AfterBaseVar(input, base) ==
    IF base.result.status # "ok"
    THEN [outcome |-> Failure(base.result.status), rng |-> base.rng]
    ELSE VaRResult(input, base,
             VarPercentage(input, base.result),
             DiversificationBenefitPercentage(input, base.result),
             calculate_stress_scenarios(input.positions, input.confidence_level,
                 input.time_horizon, base.result.var, base.rng))

\* calculate_var from generator state g: the outcome (a VaRResult, or the
\* exception that leaves the service) and the generator state left behind.
calculate_var(input, g) == AfterBaseVar(input, BaseVar(input, g))

\* ------------------------------------------------------------------------
\* VaR endpoint (api/v1/endpoints/var.py)
\* ------------------------------------------------------------------------
\* Lines 39-48: a ValueError is answered 400, any other exception 500; a
\* body the schema rejects is answered 422 before the handler runs.
\* numpy's LinAlgError derives from ValueError in the releases of the last
\* years and from Exception in older ones: linalg_is_value_error says which
\* numpy the build has.
HttpStatus(out, linalg_is_value_error) ==
    CASE out.status = "ok"          -> 200
      [] out.status = "RequestValidationError" -> 422
      [] out.status = "ValueError"  -> 400
      [] out.status = "LinAlgError" -> IF linalg_is_value_error THEN 400 ELSE 500
      [] OTHER                      -> 500

\* ------------------------------------------------------------------------
\* Requests the model sends
\* ------------------------------------------------------------------------
PosIds == <<"p1", "p2", "p3", "p4", "p5">>

EmptyMap == [x \in {} |-> 0]

RequestVolatilities == {None, Some(500)}

RequestCorrelations == {-1500, -1000, 900}

RequestConfidenceLevels == {"95%", "99%"}

RequestTimeHorizons == {"1d", "10d"}

RequestSimulations == {1000, 2000}

\* num_simulations: Optional[int] = Field(10000, gt=0)
DefaultSimulations == 10000

\* the least num_simulations validate_num_simulations lets through for Monte
\* Carlo; the requests also try half of it
MinSimulations == 1000

\* num_simulations of a request: Some(the count given, or the default when
\* the body leaves the field out) or None (the body gives null)
RequestSimulationFields ==
    {Some(n) : n \in RequestSimulations \cup {DefaultSimulations, MinSimulations \div 2}}
    \cup {None}

\* Position i of n supplies no correlation, or one toward the next position
\* (the last one toward the first, a single position toward itself).
CorrelationMaps(i, n) ==
    {EmptyMap} \cup
    {[x \in {PosIds[(i % n) + 1]} |-> v] : v \in RequestCorrelations}

\* The first position may also come with quantity 0, which the schema rejects.
PositionChoices(i, n) ==
    {[id |-> PosIds[i], asset_class |-> "equity", quantity |-> SCALE,
      price |-> 100 * SCALE, volatility |-> v, correlation |-> c] :
        v \in RequestVolatilities, c \in CorrelationMaps(i, n)}
    \cup (IF i = 1
          THEN {[id |-> PosIds[i], asset_class |-> "equity", quantity |-> 0,
                 price |-> 100 * SCALE, volatility |-> None, correlation |-> EmptyMap]}
          ELSE {})

RECURSIVE PortfoliosFrom(_, _)
\* the position lists of length n, built up to position k
PortfoliosFrom(k, n) ==
    IF k = 0 THEN {<<>>}
    ELSE {Append(ps, p) : ps \in PortfoliosFrom(k - 1, n), p \in PositionChoices(k, n)}

Portfolios == UNION {PortfoliosFrom(n, n) : n \in 0..MaxPositions}

VarInputs ==
    {[positions |-> ps, method |-> m, confidence_level |-> cl, time_horizon |-> th,
      num_simulations |-> ns, include_stress_scenarios |-> st] :
        ps \in Portfolios, m \in Methods, cl \in RequestConfidenceLevels,
        th \in RequestTimeHorizons, ns \in RequestSimulationFields,
        st \in BOOLEAN}

\* Position (schemas/var.py 50-105): validate_positive rejects quantity <= 0
\* and price <= 0, validate_volatility a volatility <= 0; the values of
\* correlation: Optional[Dict[str, float]] are any floats.
PositionInvalid(p) ==
    \/ p.quantity <= 0
    \/ p.price <= 0
    \/ p.volatility # None /\ p.volatility[1] <= 0

\* VaRInput(...) from a request body (schemas/var.py): validate_num_simulations
\* rejects a count below 1000 given with the Monte Carlo method (and
\* Field(gt=0) a count <= 0); null is accepted.
VaRInputStatus(input) ==
    IF \/ \E i \in 1..Len(input.positions) : PositionInvalid(input.positions[i])
       \/ /\ input.num_simulations # None
          /\ \/ input.num_simulations[1] <= 0
             \/ input.method = "monte_carlo" /\ input.num_simulations[1] < MinSimulations
    THEN "RequestValidationError"
    ELSE "ok"

\* ------------------------------------------------------------------------
\* SA-CCR: schemas (schemas/saccr.py)
\* ------------------------------------------------------------------------
AssetClasses == {"interest_rate", "credit", "equity", "commodity", "fx"}

TransactionTypes == {"swap", "forward", "option", "swaption", "futures", "other"}

\* TransactionType.OPTION, TransactionType.SWAPTION
OptionProducts == {"option", "swaption"}

\* A field the request body does not carry (an explicit null is None)
Omitted == <<"omitted">>

\* validate_option_fields, as the installed pydantic (2.x, see
\* core/config.py) runs a validator written for pydantic 1: only for a field
\* the body carries, with the value as supplied, values = the fields
\* validated so far, and no "field" keyword, so kwargs["field"] raises
\* KeyError.
validate_option_fields(v, transaction_type) ==
    IF v = Omitted THEN "ok"
    ELSE IF transaction_type \in OptionProducts /\ v = None THEN "KeyError"
    ELSE "ok"

\* Building a Transaction from the fields of a request body raises the
\* KeyError of validate_option_fields ...
TransactionRaises(raw) ==
    \/ validate_option_fields(raw.option_type, raw.transaction_type) = "KeyError"
    \/ validate_option_fields(raw.option_style, raw.transaction_type) = "KeyError"

\* ... or collects a validation error: notional and maturity must be
\* positive (validate_positive, Field(..., gt=0)).
TransactionInvalid(raw) == raw.notional <= 0 \/ raw.maturity <= 0

\* The Transaction built: an omitted optional field takes its default, None
Transaction(raw) ==
    [raw EXCEPT !.option_type  = IF @ = Omitted THEN None ELSE @,
                !.option_style = IF @ = Omitted THEN None ELSE @]

\* SACCRInput(netting_sets=...) from a request body: an exception raised by
\* a validator ends the validation at once, validation errors are collected
\* and raised at the end (collateral: float = Field(0, ge=0)).
SACCRInputStatus(raw) ==
    IF \E i \in 1..Len(raw) : \E k \in 1..Len(raw[i].transactions) :
           TransactionRaises(raw[i].transactions[k])
    THEN "KeyError"
    ELSE IF \E i \in 1..Len(raw) :
                \/ raw[i].collateral < 0
                \/ \E k \in 1..Len(raw[i].transactions) :
                       TransactionInvalid(raw[i].transactions[k])
    THEN "RequestValidationError"
    ELSE "ok"

SACCRInput(raw) ==
    Tuple([i \in 1..Len(raw) |->
        [raw[i] EXCEPT !.transactions =
            Tuple([k \in 1..Len(raw[i].transactions) |->
                      Transaction(raw[i].transactions[k])])]])

\* ------------------------------------------------------------------------
\* SA-CCR service (services/saccr.py)
\* ------------------------------------------------------------------------
SUPERVISORY_FACTORS(asset_class) ==
    CASE asset_class = "interest_rate" -> 5
      [] asset_class = "credit"        -> 50
      [] asset_class = "equity"        -> 320
      [] asset_class = "commodity"     -> 180
      [] asset_class = "fx"            -> 40

CORRELATION_PARAMETERS(asset_class) ==
    CASE asset_class = "commodity" -> 400
      [] OTHER                     -> 500

RECURSIVE LnSeries(_, _, _, _)
LnSeries(y2, k, term, acc) ==
    IF k > 15 \/ term = 0 THEN acc
    ELSE LET t == FMul(term, y2)
         IN  LnSeries(y2, k + 1, t, acc + TDiv(t, 2 * k + 1))

RECURSIVE FLn(_)
\* math.log(x), x > 0 fixed point: 2 atanh((x - 1) / (x + 1)) after halving
\* or doubling x into [1/2, 2]
FLn(x) ==
    IF x > 2 * SCALE THEN FLn(TDiv(x, 2)) + 693
    ELSE IF x < SCALE \div 2 THEN FLn(2 * x) - 693
    ELSE LET y == FDiv(x - SCALE, x + SCALE)
         IN  2 * LnSeries(FMul(y, y), 1, y, y)

\* norm.pdf(x)
NormPdf(x) ==
    IF Abs(x) > 5 * SCALE THEN 0
    ELSE FMul(399, FExp(-TDiv(FMul(x, x), 2)))

RECURSIVE NormCdf(_)
\* norm.cdf(x) (the polynomial approximation of Abramowitz and Stegun)
NormCdf(x) ==
    IF x < 0 THEN SCALE - NormCdf(-x)
    ELSE LET t == FDiv(SCALE, SCALE + FMul(232, x))
             poly == FMul(t, 319 + FMul(t, -357 + FMul(t, 1781 +
                         FMul(t, -1821 + FMul(t, 1330)))))
         IN  SCALE - FMul(NormPdf(x), poly)

\* Lines 50-84.  The division and the logarithm raise on a zero strike, a
\* non-positive price ratio and a zero volatility.
calculate_black_scholes(option_type, underlying_price, strike_price, time_to_maturity, volatility, interest_rate) ==
    IF strike_price = 0 THEN [status |-> "ZeroDivisionError"]
    ELSE IF FDiv(underlying_price, strike_price) <= 0 THEN [status |-> "ValueError"]
    ELSE IF FMul(volatility, FSqrt(time_to_maturity)) = 0
    THEN [status |-> "ZeroDivisionError"]
    ELSE LET sd == FMul(volatility, FSqrt(time_to_maturity))
             d1 == FDiv(FLn(FDiv(underlying_price, strike_price))
                        + FMul(interest_rate + TDiv(FMul(volatility, volatility), 2),
                               time_to_maturity),
                        sd)
             d2 == d1 - sd
             df == FExp(-FMul(interest_rate, time_to_maturity))
         IN  IF option_type = "call"
             THEN [status |-> "ok",
                   price  |-> FMul(underlying_price, NormCdf(d1))
                              - FMul(FMul(strike_price, df), NormCdf(d2)),
                   delta  |-> NormCdf(d1)]
             ELSE [status |-> "ok",
                   price  |-> FMul(FMul(strike_price, df), NormCdf(-d2))
                              - FMul(underlying_price, NormCdf(-d1)),
                   delta  |-> NormCdf(d1) - SCALE]

\* Lines 176-182 and 103-109: one of the option parameters is None
MissingOptionParameters(transaction) ==
    \/ transaction.underlying_price = None
    \/ transaction.strike_price = None
    \/ transaction.option_type = None
    \/ transaction.volatility = None
    \/ transaction.interest_rate = None

BlackScholesOf(transaction) ==
    calculate_black_scholes(transaction.option_type[1],
        transaction.underlying_price[1], transaction.strike_price[1],
        transaction.maturity, transaction.volatility[1],
        transaction.interest_rate[1])

\* Lines 87-129
SACCR_supervisory_delta_of(transaction, bs) ==
    IF bs.status # "ok" THEN [status |-> bs.status]
    ELSE [status |-> "ok",
          v |-> IF transaction.option_type[1] = "put" THEN -bs.delta ELSE bs.delta]

SACCR_calculate_supervisory_delta(transaction) ==
    IF transaction.supervisory_delta # None
    THEN [status |-> "ok", v |-> transaction.supervisory_delta[1]]
    ELSE IF transaction.transaction_type \notin OptionProducts
    THEN [status |-> "ok", v |-> SCALE]
    ELSE IF MissingOptionParameters(transaction)
    THEN [status |-> "ValueError"]
    ELSE SACCR_supervisory_delta_of(transaction, BlackScholesOf(transaction))

\* the maturity factor computed from the maturity whatever the transaction gives
MaturityFactor_Computed(transaction) == FSqrt(Min(transaction.maturity, SCALE))

\* Lines 132-148
SACCR_calculate_maturity_factor(transaction) ==
    IF transaction.maturity_factor # None THEN transaction.maturity_factor[1]
    ELSE FSqrt(Min(transaction.maturity, SCALE))

\* Lines 151-161
calculate_adjusted_notional(transaction) == transaction.notional

\* Lines 175-201: what one transaction adds to total_value
TransactionValueOf(transaction, bs) ==
    IF bs.status # "ok" THEN [status |-> bs.status]
    ELSE [status |-> "ok", v |-> FMul(bs.price, transaction.notional)]

TransactionValue(transaction) ==
    IF transaction.transaction_type \in OptionProducts
    THEN IF ~MissingOptionParameters(transaction)
         THEN TransactionValueOf(transaction, BlackScholesOf(transaction))
         ELSE [status |-> "ok", v |-> FMul(100, transaction.notional)]
    ELSE [status |-> "ok", v |-> FMul(50, transaction.notional)]

RECURSIVE SumValues(_, _)
\* the sum of the v of a list of [status, v], or its first failure
SumValues(items, acc) ==
    IF items = <<>> THEN [status |-> "ok", v |-> acc]
    ELSE IF Head(items).status # "ok" THEN [status |-> Head(items).status]
    ELSE SumValues(Tail(items), acc + Head(items).v)

\* Lines 164-203
SACCR_replacement_cost_of(netting_set, total_value) ==
    IF total_value.status # "ok" THEN total_value
    ELSE [status |-> "ok", v |-> Max(total_value.v - netting_set.collateral, 0)]

SACCR_calculate_replacement_cost(netting_set) ==
    SACCR_replacement_cost_of(netting_set,
        SumValues(Tuple([i \in 1..Len(netting_set.transactions) |->
                            TransactionValue(netting_set.transactions[i])]), 0))

RECURSIVE AssetClassOrder(_, _)
\* the asset classes of a list of transactions, each once, in the order of
\* their first transaction (the key order of the dict the code fills)
AssetClassOrder(transactions, seen) ==
    IF transactions = <<>> THEN seen
    ELSE AssetClassOrder(Tail(transactions),
             IF \E i \in 1..Len(seen) : seen[i] = Head(transactions).asset_class
             THEN seen ELSE Append(seen, Head(transactions).asset_class))

\* the transactions of one asset class, in their order
OfAssetClass(transactions, asset_class) ==
    SelectSeq(transactions, LAMBDA t : t.asset_class = asset_class)

\* Lines 233-240: supervisory_delta * adjusted_notional * maturity_factor
SACCR_effective_notional_of(transaction, delta) ==
    IF delta.status # "ok" THEN delta
    ELSE [status |-> "ok",
          v |-> FMul(FMul(delta.v, calculate_adjusted_notional(transaction)),
                     SACCR_calculate_maturity_factor(transaction))]

SACCR_effective_notional(transaction) ==
    SACCR_effective_notional_of(transaction,
                                SACCR_calculate_supervisory_delta(transaction))

\* Lines 228-246: the add-on of one asset class
SACCR_add_on_of(asset_class, effective_notional) ==
    IF effective_notional.status # "ok" THEN effective_notional
    ELSE [status |-> "ok", asset_class |-> asset_class,
          v |-> FMul(SUPERVISORY_FACTORS(asset_class), effective_notional.v)]

SACCR_class_add_on(transactions, asset_class) ==
    SACCR_add_on_of(asset_class,
        SumValues(Tuple([i \in 1..Len(OfAssetClass(transactions, asset_class)) |->
            SACCR_effective_notional(OfAssetClass(transactions, asset_class)[i])]), 0))

\* the add-ons as the list of the dict's items, or the first failure
AddOnItems(items) ==
    IF SumValues(items, 0).status # "ok" THEN [status |-> SumValues(items, 0).status]
    ELSE [status |-> "ok",
          add_ons |-> Tuple([i \in 1..Len(items) |->
                         [asset_class |-> items[i].asset_class, add_on |-> items[i].v]])]

\* Lines 206-248
SACCR_calculate_add_on(netting_set) ==
    AddOnItems(Tuple([c \in 1..Len(AssetClassOrder(netting_set.transactions, <<>>)) |->
        SACCR_class_add_on(netting_set.transactions,
            AssetClassOrder(netting_set.transactions, <<>>)[c])]))

\* sum(add_ons.values())
TotalAddOn(add_ons) ==
    SumSeq(Tuple([i \in 1..Len(add_ons) |-> add_ons[i].add_on]))

\* Lines 268-274.  divided tells whether the division by the total add-on
\* was carried out.
SACCR_multiplier(replacement_cost, total_add_on) ==
    IF total_add_on = 0
    THEN [multiplier |-> SCALE, divided |-> FALSE]
    ELSE [multiplier |->
              50 + FMul(SCALE - 50,
                        FExp(-Min(SCALE, FDiv(replacement_cost, 2 * total_add_on)))),
          divided |-> TRUE]

\* Lines 261-279, from the add-ons and the replacement cost computed
SACCR_pfe_of(add_ons, replacement_cost) ==
    IF add_ons.status # "ok" THEN [status |-> add_ons.status]
    ELSE IF replacement_cost.status # "ok" THEN [status |-> replacement_cost.status]
    ELSE [status |-> "ok",
          add_ons |-> add_ons.add_ons,
          total_add_on |-> TotalAddOn(add_ons.add_ons),
          multiplier |->
              SACCR_multiplier(replacement_cost.v, TotalAddOn(add_ons.add_ons)).multiplier,
          divided |->
              SACCR_multiplier(replacement_cost.v, TotalAddOn(add_ons.add_ons)).divided,
          pfe |-> FMul(SACCR_multiplier(replacement_cost.v,
                                        TotalAddOn(add_ons.add_ons)).multiplier,
                       TotalAddOn(add_ons.add_ons))]

calculate_potential_future_exposure(netting_set) ==
    SACCR_pfe_of(SACCR_calculate_add_on(netting_set),
                 SACCR_calculate_replacement_cost(netting_set))

\* ------------------------------------------------------------------------
\* SA-CCR service: calculate_saccr
\* ------------------------------------------------------------------------
\* d[key] = value on a dict held as the list of its items
DictSet(d, key, value) ==
    IF \E i \in 1..Len(d) : d[i].key = key
    THEN Tuple([i \in 1..Len(d) |-> IF d[i].key = key THEN [key |-> key, value |-> value]
                                    ELSE d[i]])
    ELSE Append(d, [key |-> key, value |-> value])

\* Line 311: ead = replacement_cost + pfe, with no alpha multiplier
ExposureAtDefault_Alpha(replacement_cost, pfe) == FMul(1400, replacement_cost + pfe)

ExposureAtDefault(replacement_cost, pfe) == replacement_cost + pfe

\* Lines 294-297: the figures before the first netting set
SACCRStart ==
    [total_replacement_cost |-> 0,
     total_potential_future_exposure |-> 0,
     asset_class_results |-> <<>>,
     netting_set_results |-> <<>>]

\* Lines 345-352: the detail entry of one transaction
TransactionDetail(transaction) ==
    [id |-> transaction.id,
     notional |-> transaction.notional,
     adjusted_notional |-> calculate_adjusted_notional(transaction),
     supervisory_delta |-> SACCR_calculate_supervisory_delta(transaction).v,
     maturity_factor |-> SACCR_calculate_maturity_factor(transaction),
     effective_notional |-> SACCR_effective_notional(transaction).v]

\* Lines 320-332: the entry of an asset class when it is first met
NewAssetClassResult(asset_class) ==
    [replacement_cost |-> 0, potential_future_exposure |-> 0, ead |-> 0,
     details |-> [supervisory_factor |-> SUPERVISORY_FACTORS(asset_class),
                  correlation_parameter |-> CORRELATION_PARAMETERS(asset_class),
                  transactions |-> <<>>]]

AssetClassEntry(results, asset_class) ==
    IF \E i \in 1..Len(results) : results[i].key = asset_class
    THEN (CHOOSE e \in {results[i] : i \in 1..Len(results)} : e.key = asset_class).value
    ELSE NewAssetClassResult(asset_class)

\* Lines 320-352 for one add-on of a netting set
AddToAssetClass(results, netting_set, item) ==
    DictSet(results, item.asset_class,
        [AssetClassEntry(results, item.asset_class) EXCEPT
            !.potential_future_exposure = @ + item.add_on,
            !.ead = @ + item.add_on,
            !.details.transactions = @ \o
                Tuple([i \in 1..Len(OfAssetClass(netting_set.transactions,
                                                 item.asset_class)) |->
                    TransactionDetail(OfAssetClass(netting_set.transactions,
                                                   item.asset_class)[i])])])

RECURSIVE AddAssetClasses(_, _, _)
AddAssetClasses(results, netting_set, add_ons) ==
    IF add_ons = <<>> THEN results
    ELSE AddAssetClasses(AddToAssetClass(results, netting_set, Head(add_ons)),
                         netting_set, Tail(add_ons))

\* Lines 300-352: one turn of the loop over the netting sets, from the
\* replacement cost and the PFE computed for the netting set.  locals holds
\* what the turn computed.
SACCRTurn(acc, netting_set, replacement_cost, pf) ==
    IF replacement_cost.status # "ok" THEN [status |-> replacement_cost.status]
    ELSE IF pf.status # "ok" THEN [status |-> pf.status]
    ELSE [status |-> "ok",
          acc |->
              [total_replacement_cost |->
                   acc.total_replacement_cost + replacement_cost.v,
               total_potential_future_exposure |->
                   acc.total_potential_future_exposure + pf.pfe,
               asset_class_results |->
                   AddAssetClasses(acc.asset_class_results, netting_set, pf.add_ons),
               netting_set_results |->
                   DictSet(acc.netting_set_results, netting_set.id,
                       [replacement_cost |-> replacement_cost.v,
                        potential_future_exposure |-> pf.pfe,
                        exposure_at_default |-> ExposureAtDefault(replacement_cost.v, pf.pfe),
                        add_ons |-> pf.add_ons])],
          locals |->
              [engine |-> "saccr",
               id |-> netting_set.id,
               replacement_cost |-> replacement_cost.v,
               total_add_on |-> pf.total_add_on,
               multiplier |-> pf.multiplier,
               divided |-> pf.divided,
               pfe |-> pf.pfe,
               exposure_at_default |-> ExposureAtDefault(replacement_cost.v, pf.pfe)]]

SACCRNettingSet(acc, netting_set) ==
    SACCRTurn(acc, netting_set,
              SACCR_calculate_replacement_cost(netting_set),
              calculate_potential_future_exposure(netting_set))

\* the Python type of the value the details dict holds under a key
DetailsValueType(name) == IF name = "transactions" THEN "list" ELSE "float"

\* AssetClassResult.details: Dict[str, Union[float, str, Dict]].  A value
\* that is no float, no str and no dict makes pydantic raise
\* ValidationError when the AssetClassResult is built.
DetailsAccepted(details) ==
    \A name \in DOMAIN details : DetailsValueType(name) \in {"float", "str", "dict"}

\* Line 355: total_ead, computed after the loop from the two totals
SACCRTotals(acc) ==
    [total_ead |-> acc.total_replacement_cost + acc.total_potential_future_exposure]
        @@ acc

\* Lines 358-374: the result built from the figures acc, total_ead included
SACCRResult(acc) ==
    IF \E i \in 1..Len(acc.asset_class_results) :
           ~DetailsAccepted(acc.asset_class_results[i].value.details)
    THEN [status |-> "ValidationError"]
    ELSE [status |-> "ok",
          total_ead |-> acc.total_ead,
          total_replacement_cost |-> acc.total_replacement_cost,
          total_potential_future_exposure |-> acc.total_potential_future_exposure,
          asset_class_results |-> acc.asset_class_results,
          netting_set_results |-> acc.netting_set_results]

RECURSIVE SACCRLoop(_, _)
\* Lines 299-374: the loop over the netting sets from the figures acc on,
\* left by the first exception, and the result built after it
SACCRLoop(turn, netting_sets) ==
    IF turn.status # "ok" THEN [status |-> turn.status]
    ELSE IF netting_sets = <<>> THEN SACCRResult(SACCRTotals(turn.acc))
    ELSE SACCRLoop(SACCRNettingSet(turn.acc, Head(netting_sets)), Tail(netting_sets))

\* Lines 282-378
calculate_saccr(input_data) ==
    SACCRLoop([status |-> "ok", acc |-> SACCRStart], input_data)

\* ------------------------------------------------------------------------
\* PFE service (services/pfe.py)
\* ------------------------------------------------------------------------
PFEMethods == {"sa_ccr", "internal_model", "historical"}

PFETimeHorizons == {"1w", "1m", "3m", "6m", "1y", "2y", "5y"}

PFEConfidenceLevels == {"95%", "97.5%", "99%"}

PFE_SUPERVISORY_FACTORS(asset_class) ==
    CASE asset_class = "interest_rate" -> 5
      [] asset_class = "credit"        -> 50
      [] asset_class = "equity"        -> 320
      [] asset_class = "commodity"     -> 180
      [] asset_class = "fx"            -> 40

TIME_HORIZON_YEARS(time_horizon) ==
    CASE time_horizon = "1w" -> FDiv(SCALE, 52 * SCALE)
      [] time_horizon = "1m" -> FDiv(SCALE, 12 * SCALE)
      [] time_horizon = "3m" -> FDiv(3 * SCALE, 12 * SCALE)
      [] time_horizon = "6m" -> FDiv(6 * SCALE, 12 * SCALE)
      [] time_horizon = "1y" -> SCALE
      [] time_horizon = "2y" -> 2 * SCALE
      [] time_horizon = "5y" -> 5 * SCALE

PFE_CONFIDENCE_LEVELS(confidence_level) ==
    CASE confidence_level = "95%"   -> 1645
      [] confidence_level = "97.5%" -> 1960
      [] confidence_level = "99%"   -> 2326

\* Lines 71-91
PFE_calculate_supervisory_delta(trade) ==
    IF trade.supervisory_delta # None THEN trade.supervisory_delta[1]
    ELSE IF trade.transaction_type \notin OptionProducts THEN SCALE
    ELSE SCALE \div 2

\* Lines 94-110
PFE_calculate_maturity_factor(trade) ==
    IF trade.maturity_factor # None THEN trade.maturity_factor[1]
    ELSE FSqrt(Min(trade.maturity, SCALE))

\* Lines 113-123
\* the collateral value with the haircuts left out
CollateralValue_FaceAmount(collateral) ==
    SumSeq(Tuple([i \in 1..Len(collateral) |-> collateral[i].amount]))

calculate_collateral_value(collateral) ==
    SumSeq(Tuple([i \in 1..Len(collateral) |->
                     FMul(SCALE - collateral[i].haircut, collateral[i].amount)]))

\* Lines 126-143
PFE_calculate_replacement_cost(netting_set) ==
    Max(SumSeq(Tuple([i \in 1..Len(netting_set.trades) |->
                         netting_set.trades[i].market_value]))
        - calculate_collateral_value(netting_set.collateral), 0)

\* Lines 170-183: the add-on of one asset class
PFE_class_add_on(trades, asset_class) ==
    [asset_class |-> asset_class,
     add_on |->
         FMul(PFE_SUPERVISORY_FACTORS(asset_class),
              SumSeq(Tuple([i \in 1..Len(OfAssetClass(trades, asset_class)) |->
                  FMul(FMul(PFE_calculate_supervisory_delta(
                                OfAssetClass(trades, asset_class)[i]),
                            OfAssetClass(trades, asset_class)[i].notional),
                       PFE_calculate_maturity_factor(
                           OfAssetClass(trades, asset_class)[i]))])))]

\* Lines 146-185
PFE_calculate_add_on(netting_set) ==
    Tuple([c \in 1..Len(AssetClassOrder(netting_set.trades, <<>>)) |->
        PFE_class_add_on(netting_set.trades,
                         AssetClassOrder(netting_set.trades, <<>>)[c])])

\* Lines 211-217 without the test of line 211: the division by a zero
\* add-on gives an infinite quotient, of which min takes 1.0
PFE_multiplier_Unguarded(replacement_cost, total_add_on) ==
    [multiplier |->
         50 + FMul(SCALE - 50,
                   FExp(-(IF total_add_on = 0 THEN SCALE
                          ELSE Min(SCALE, FDiv(replacement_cost, 2 * total_add_on))))),
     divided |-> TRUE]

\* Lines 211-217.  divided tells whether the division by the total add-on
\* was carried out.
PFE_multiplier(replacement_cost, total_add_on) ==
    IF total_add_on = 0
    THEN [multiplier |-> SCALE, divided |-> FALSE]
    ELSE [multiplier |->
              50 + FMul(SCALE - 50,
                        FExp(-Min(SCALE, FDiv(replacement_cost, 2 * total_add_on)))),
          divided |-> TRUE]

\* Lines 219-220: multiplier * total_add_on
UnscaledPfe(replacement_cost, total_add_on) ==
    FMul(PFE_multiplier(replacement_cost, total_add_on).multiplier, total_add_on)

\* Lines 222-224 left out
TimeScaled_Skipped(pfe, time_horizon) == pfe

\* Lines 222-224: pfe *= math.sqrt(TIME_HORIZON_YEARS[time_horizon])
TimeScaled(pfe, time_horizon) ==
    FMul(pfe, FSqrt(TIME_HORIZON_YEARS(time_horizon)))

\* Lines 226-228: pfe *= CONFIDENCE_LEVELS[confidence_level] / 1.96
ConfidenceScaled(pfe, confidence_level) ==
    FMul(pfe, FDiv(PFE_CONFIDENCE_LEVELS(confidence_level), 1960))

\* Lines 188-230, from the add-ons and the replacement cost computed
PFE_sa_ccr_of(add_ons, replacement_cost, time_horizon, confidence_level) ==
    [add_ons |-> add_ons,
     total_add_on |-> TotalAddOn(add_ons),
     multiplier |-> PFE_multiplier(replacement_cost, TotalAddOn(add_ons)).multiplier,
     divided |-> PFE_multiplier(replacement_cost, TotalAddOn(add_ons)).divided,
     pfe |-> ConfidenceScaled(
                 TimeScaled(UnscaledPfe(replacement_cost, TotalAddOn(add_ons)),
                            time_horizon),
                 confidence_level)]

calculate_potential_future_exposure_sa_ccr(netting_set, time_horizon, confidence_level) ==
    PFE_sa_ccr_of(PFE_calculate_add_on(netting_set),
                  PFE_calculate_replacement_cost(netting_set),
                  time_horizon, confidence_level)

\* Lines 252-261: pfe *= 0.8 on the figure of the SA-CCR routine
InternalModelAdjusted(sa) == [sa EXCEPT !.pfe = FMul(@, 800)]

calculate_potential_future_exposure_internal_model(netting_set, time_horizon, confidence_level) ==
    InternalModelAdjusted(
        calculate_potential_future_exposure_sa_ccr(netting_set, time_horizon,
                                                   confidence_level))

\* Lines 292-301: pfe *= 1.1 on the figure of the SA-CCR routine
HistoricalAdjusted(sa) == [sa EXCEPT !.pfe = FMul(@, 1100)]

calculate_potential_future_exposure_historical(netting_set, time_horizon, confidence_level) ==
    HistoricalAdjusted(
        calculate_potential_future_exposure_sa_ccr(netting_set, time_horizon,
                                                   confidence_level))

\* Lines 416-445: the routine of the calculation method
MethodPfe(netting_set, input) ==
    CASE input.calculation_method = "sa_ccr" ->
            calculate_potential_future_exposure_sa_ccr(netting_set,
                input.time_horizon, input.confidence_level)
      [] input.calculation_method = "internal_model" ->
            calculate_potential_future_exposure_internal_model(netting_set,
                input.time_horizon, input.confidence_level)
      [] input.calculation_method = "historical" ->
            calculate_potential_future_exposure_historical(netting_set,
                input.time_horizon, input.confidence_level)

\* Lines 369-391: the years of a time point such as "3m"
time_point_to_years(time_point) ==
    CASE time_point = "1d" -> FDiv(SCALE, 365 * SCALE)
      [] time_point = "1w" -> FDiv(SCALE, 52 * SCALE)
      [] time_point = "2w" -> FDiv(2 * SCALE, 52 * SCALE)
      [] time_point = "3w" -> FDiv(3 * SCALE, 52 * SCALE)
      [] time_point = "1m" -> FDiv(SCALE, 12 * SCALE)
      [] time_point = "2m" -> FDiv(2 * SCALE, 12 * SCALE)
      [] time_point = "3m" -> FDiv(3 * SCALE, 12 * SCALE)
      [] time_point = "6m" -> FDiv(6 * SCALE, 12 * SCALE)
      [] time_point = "9m" -> FDiv(9 * SCALE, 12 * SCALE)
      [] time_point = "1y" -> SCALE
      [] time_point = "2y" -> 2 * SCALE
      [] time_point = "3y" -> 3 * SCALE
      [] time_point = "5y" -> 5 * SCALE

\* Lines 331-342
TimePoints_Unfiltered(time_horizon) ==
    IF TIME_HORIZON_YEARS(time_horizon) <= FDiv(SCALE, 12 * SCALE)
    THEN <<"1d", "1w", "2w", "3w", "1m">>
    ELSE IF TIME_HORIZON_YEARS(time_horizon) <= FDiv(3 * SCALE, 12 * SCALE)
    THEN <<"1d", "1w", "2w", "1m", "2m", "3m">>
    ELSE IF TIME_HORIZON_YEARS(time_horizon) <= SCALE
    THEN <<"1d", "1w", "1m", "3m", "6m", "9m", "1y">>
    ELSE <<"1d", "1m", "3m", "6m", "1y", "2y", "3y", "5y">>

TimePoints(time_horizon) ==
    IF TIME_HORIZON_YEARS(time_horizon) <= FDiv(SCALE, 12 * SCALE)
    THEN <<"1d", "1w", "2w", "3w", "1m">>
    ELSE IF TIME_HORIZON_YEARS(time_horizon) <= FDiv(3 * SCALE, 12 * SCALE)
    THEN <<"1d", "1w", "2w", "1m", "2m", "3m">>
    ELSE IF TIME_HORIZON_YEARS(time_horizon) <= SCALE
    THEN <<"1d", "1w", "1m", "3m", "6m", "9m", "1y">>
    ELSE SelectSeq(<<"1d", "1m", "3m", "6m", "1y", "2y", "3y", "5y">>,
                   LAMBDA tp : time_point_to_years(tp) <= TIME_HORIZON_YEARS(time_horizon))

\* Lines 348-364: the profile point of one time point
ProfilePoint(time_point, replacement_cost, horizon_years, pfe) ==
    [time_point |-> time_point,
     expected_exposure |->
         FMul(replacement_cost, FExp(-2 * time_point_to_years(time_point))),
     potential_future_exposure |->
         FMul(FMul(pfe, FSqrt(FDiv(time_point_to_years(time_point), horizon_years))),
              IF time_point_to_years(time_point) < horizon_years
              THEN FMul(4 * time_point_to_years(time_point),
                        SCALE - FDiv(time_point_to_years(time_point), horizon_years))
              ELSE 0)]

\* Lines 313-366
generate_exposure_profile(netting_set, time_horizon, pfe) ==
    Tuple([i \in 1..Len(TimePoints(time_horizon)) |->
        ProfilePoint(TimePoints(time_horizon)[i],
                     PFE_calculate_replacement_cost(netting_set),
                     TIME_HORIZON_YEARS(time_horizon), pfe)])

\* ------------------------------------------------------------------------
\* PFE service: calculate_pfe
\* ------------------------------------------------------------------------
\* Lines 406-410: the figures before the first netting set
PFEStart ==
    [total_pfe |-> 0,
     total_expected_exposure |-> 0,
     all_add_ons |-> <<>>,
     netting_set_results |-> <<>>,
     exposure_profiles |-> <<>>]

\* all_add_ons[key], 0.0 for a key not yet there
DictGet(d, key) ==
    IF \E i \in 1..Len(d) : d[i].key = key
    THEN (CHOOSE e \in {d[i] : i \in 1..Len(d)} : e.key = key).value
    ELSE 0

RECURSIVE AddAllAddOns(_, _)
\* Lines 454-458
AddAllAddOns(all_add_ons, add_ons) ==
    IF add_ons = <<>> THEN all_add_ons
    ELSE AddAllAddOns(
             DictSet(all_add_ons, Head(add_ons).asset_class,
                     DictGet(all_add_ons, Head(add_ons).asset_class)
                     + Head(add_ons).add_on),
             Tail(add_ons))

\* Lines 467-474: the first profile is kept, the later ones are added to it
CombineProfiles(exposure_profiles, exposure_profile) ==
    IF exposure_profiles = <<>> THEN exposure_profile
    ELSE Tuple([i \in 1..Len(exposure_profiles) |->
             IF i <= Len(exposure_profile)
             THEN [exposure_profiles[i] EXCEPT
                      !.expected_exposure = @ + exposure_profile[i].expected_exposure,
                      !.potential_future_exposure =
                          @ + exposure_profile[i].potential_future_exposure]
             ELSE exposure_profiles[i]])

\* Lines 413-474: one turn of the loop over the netting sets, from the PFE
\* the method's routine computed.  locals holds what the turn computed.
PFETurn(acc, netting_set, input, m) ==
    [acc |->
         [total_pfe |-> acc.total_pfe + m.pfe,
          total_expected_exposure |->
              acc.total_expected_exposure + PFE_calculate_replacement_cost(netting_set),
          all_add_ons |-> AddAllAddOns(acc.all_add_ons, m.add_ons),
          netting_set_results |->
              DictSet(acc.netting_set_results, netting_set.id,
                  [pfe |-> m.pfe,
                   expected_exposure |-> PFE_calculate_replacement_cost(netting_set),
                   add_ons |-> m.add_ons]),
          exposure_profiles |->
              CombineProfiles(acc.exposure_profiles,
                  generate_exposure_profile(netting_set, input.time_horizon, m.pfe))],
     locals |->
         [engine |-> "pfe",
          id |-> netting_set.id,
          replacement_cost |-> PFE_calculate_replacement_cost(netting_set),
          total_add_on |-> m.total_add_on,
          multiplier |-> m.multiplier,
          divided |-> m.divided,
          pfe |-> m.pfe,
          exposure_profile |->
              generate_exposure_profile(netting_set, input.time_horizon, m.pfe)]]

PFENettingSet(acc, netting_set, input) ==
    PFETurn(acc, netting_set, input, MethodPfe(netting_set, input))

\* Lines 476-486
AssetClassBreakdown(all_add_ons, total_add_on) ==
    Tuple([i \in 1..Len(all_add_ons) |->
        [asset_class |-> all_add_ons[i].key,
         exposure |-> all_add_ons[i].value,
         percentage |->
             IF total_add_on > 0
             THEN FMul(FDiv(all_add_ons[i].value, total_add_on), 100 * SCALE)
             ELSE 0]])

\* sum(all_add_ons.values())
TotalOfValues(d) == SumSeq(Tuple([i \in 1..Len(d) |-> d[i].value]))

\* Lines 476-498: the result built after the loop
PFEResult(acc, input) ==
    [status |-> "ok",
     total_pfe |-> acc.total_pfe,
     total_expected_exposure |-> acc.total_expected_exposure,
     calculation_method |-> input.calculation_method,
     time_horizon |-> input.time_horizon,
     confidence_level |-> input.confidence_level,
     exposure_profile |-> acc.exposure_profiles,
     asset_class_breakdown |->
         AssetClassBreakdown(acc.all_add_ons, TotalOfValues(acc.all_add_ons)),
     netting_set_results |-> acc.netting_set_results]

RECURSIVE PFELoop(_, _, _)
\* Lines 432-474: the loop over the netting sets from the figures acc on
PFELoop(acc, netting_sets, input) ==
    IF netting_sets = <<>> THEN PFEResult(acc, input)
    ELSE PFELoop(PFENettingSet(acc, Head(netting_sets), input).acc,
                 Tail(netting_sets), input)

\* Lines 413-500
calculate_pfe(input_data) == PFELoop(PFEStart, input_data.netting_sets, input_data)

\* ------------------------------------------------------------------------
\* Initial margin service (services/initial_margin.py)
\* ------------------------------------------------------------------------
\* GRID_THRESHOLDS[asset_class][maturity_bucket]
GRID_THRESHOLDS(asset_class, maturity_bucket) ==
    CASE asset_class = "interest_rate" ->
            (CASE maturity_bucket = "0-2" -> 10 [] maturity_bucket = "2-5" -> 20
               [] maturity_bucket = "5+" -> 40)
      [] asset_class = "credit" ->
            (CASE maturity_bucket = "0-2" -> 20 [] maturity_bucket = "2-5" -> 50
               [] maturity_bucket = "5+" -> 100)
      [] asset_class = "equity" ->
            (CASE maturity_bucket = "0-2" -> 60 [] maturity_bucket = "2-5" -> 80
               [] maturity_bucket = "5+" -> 100)
      [] asset_class = "commodity" ->
            (CASE maturity_bucket = "0-2" -> 100 [] maturity_bucket = "2-5" -> 120
               [] maturity_bucket = "5+" -> 150)
      [] asset_class = "fx" ->
            (CASE maturity_bucket = "0-2" -> 40 [] maturity_bucket = "2-5" -> 50
               [] maturity_bucket = "5+" -> 60)

\* SIMM_RISK_WEIGHTS[asset_class][component]
SIMM_RISK_WEIGHTS(asset_class, component) ==
    CASE asset_class = "interest_rate" -> (IF component = "delta" THEN 5 ELSE 10)
      [] asset_class = "credit" -> (IF component = "delta" THEN 50 ELSE 100)
      [] asset_class = "equity" -> (IF component = "delta" THEN 150 ELSE 200)
      [] asset_class = "commodity" -> (IF component = "delta" THEN 180 ELSE 300)
      [] asset_class = "fx" -> (IF component = "delta" THEN 40 ELSE 50)

get_maturity_bucket(maturity) ==
    IF maturity < 2 * SCALE THEN "0-2"
    ELSE IF maturity < 5 * SCALE THEN "2-5"
    ELSE "5+"

\* sum(margins.values())
SumOfMargins(margins) ==
    SumSeq(Tuple([i \in 1..Len(margins) |-> margins[i].value]))

\* Lines 137-146: gross_notional of the trades of one asset class
GrossNotional(trades) ==
    SumSeq(Tuple([i \in 1..Len(trades) |-> Abs(trades[i].notional)]))

\* Line 143: threshold, as the loop over the trades leaves it
GridRate_OfBucket(asset_class, trades) ==
    GRID_THRESHOLDS(asset_class, get_maturity_bucket(trades[Len(trades)].maturity))

\* Line 151: the rate the margin is computed with
GridRate(asset_class, trades) == GRID_THRESHOLDS(asset_class, "2-5")

\* Lines 135-152: the margin of one asset class
GridClassMargin(asset_class, trades) ==
    FMul(GrossNotional(trades), GridRate(asset_class, trades))

\* Lines 134-152: margins, keyed by asset class in the order of first trade
GridMargins(trades, order) ==
    Tuple([k \in 1..Len(order) |->
        [key |-> order[k],
         value |-> GridClassMargin(order[k], OfAssetClass(trades, order[k]))]])

calculate_grid_margin(netting_set) ==
    [margin |-> SumOfMargins(GridMargins(netting_set.trades,
                                         AssetClassOrder(netting_set.trades, <<>>))),
     margins |-> GridMargins(netting_set.trades,
                             AssetClassOrder(netting_set.trades, <<>>)),
     sensitivity |-> None]

\* trade.delta if trade.delta is not None else 1.0, and the like
SensitivityOf(trade, component) ==
    IF trade[component] # None THEN trade[component][1]
    ELSE CASE component = "delta" -> SCALE
           [] component = "vega" -> 100
           [] component = "curvature" -> 10

\* Lines 196 and 201: the trades that add to vega_sum and curvature_sum
VegaTrades_All(trades) == trades

VegaTrades(trades) == SelectSeq(trades, LAMBDA t : t.product \in OptionProducts)

\* Lines 190-203: delta_sum, vega_sum or curvature_sum of one asset class
SensitivitySum(trades, component) ==
    SumSeq(Tuple([i \in 1..Len(trades) |->
        FMul(SensitivityOf(trades[i], component), trades[i].notional)]))

\* Lines 206-208: delta_margin, vega_margin or curvature_margin
ComponentMargin(asset_class, trades, component) ==
    FMul(Abs(SensitivitySum(IF component = "delta" THEN trades ELSE VegaTrades(trades),
                            component)),
         SIMM_RISK_WEIGHTS(asset_class, component))

\* Lines 184-212: margins
SimmMargins(trades, order) ==
    Tuple([k \in 1..Len(order) |->
        [key |-> order[k],
         value |-> ComponentMargin(order[k], OfAssetClass(trades, order[k]), "delta")
                   + ComponentMargin(order[k], OfAssetClass(trades, order[k]), "vega")
                   + ComponentMargin(order[k], OfAssetClass(trades, order[k]),
                                     "curvature")]])

\* Lines 215-217: total_delta, total_vega or total_curvature
ComponentTotal(trades, order, component) ==
    SumSeq(Tuple([k \in 1..Len(order) |->
        ComponentMargin(order[k], OfAssetClass(trades, order[k]), component)]))

\* Lines 223-227
SensitivityBreakdown(trades, order) ==
    [delta |-> ComponentTotal(trades, order, "delta"),
     vega |-> ComponentTotal(trades, order, "vega"),
     curvature |-> ComponentTotal(trades, order, "curvature")]

calculate_simm_margin(netting_set) ==
    [margin |-> SumOfMargins(SimmMargins(netting_set.trades,
                                         AssetClassOrder(netting_set.trades, <<>>))),
     margins |-> SimmMargins(netting_set.trades,
                             AssetClassOrder(netting_set.trades, <<>>)),
     sensitivity |-> Some(SensitivityBreakdown(netting_set.trades,
                              AssetClassOrder(netting_set.trades, <<>>)))]

\* ------------------------------------------------------------------------
\* Initial margin service: calculate_initial_margin
\* ------------------------------------------------------------------------
\* Lines 244-247: the figures before the first netting set
IMStart ==
    [total_margin |-> 0,
     all_margins |-> <<>>,
     netting_set_results |-> <<>>,
     sensitivity_breakdown |-> None]

RECURSIVE AddAllMargins(_, _)
\* Lines 274-277
AddAllMargins(all_margins, margins) ==
    IF margins = <<>> THEN all_margins
    ELSE AddAllMargins(DictSet(all_margins, Head(margins).key,
                               DictGet(all_margins, Head(margins).key)
                                   + Head(margins).value),
                       Tail(margins))

\* Lines 259-265: the running sensitivity breakdown
AddSensitivity(sensitivity_breakdown, netting_sensitivity) ==
    IF netting_sensitivity = None THEN sensitivity_breakdown
    ELSE IF sensitivity_breakdown = None THEN netting_sensitivity
    ELSE Some([delta |-> sensitivity_breakdown[1].delta + netting_sensitivity[1].delta,
               vega |-> sensitivity_breakdown[1].vega + netting_sensitivity[1].vega,
               curvature |-> sensitivity_breakdown[1].curvature
                             + netting_sensitivity[1].curvature])

\* Lines 252-256: the routine of the calculation method
MethodMargin(netting_set, calculation_method) ==
    IF calculation_method = "grid" THEN calculate_grid_margin(netting_set)
    ELSE calculate_simm_margin(netting_set)

\* Lines 250-283: one turn of the loop, m the figures of the method's routine
IMTurn(acc, netting_set, m) ==
    [status |-> "ok",
     acc |-> [total_margin |-> acc.total_margin + m.margin,
              all_margins |-> AddAllMargins(acc.all_margins, m.margins),
              netting_set_results |->
                  DictSet(acc.netting_set_results, netting_set.id,
                          [margin |-> m.margin, margins_by_asset_class |-> m.margins]),
              sensitivity_breakdown |->
                  AddSensitivity(acc.sensitivity_breakdown, m.sensitivity)],
     locals |-> [engine |-> "im", id |-> netting_set.id, margin |-> m.margin,
                 margins |-> m.margins, sensitivity |-> m.sensitivity]]

IMNettingSet(acc, netting_set, calculation_method) ==
    IMTurn(acc, netting_set, MethodMargin(netting_set, calculation_method))

\* Line 289
MarginPercentage(margin, total_margin) ==
    IF total_margin > 0 THEN FMul(FDiv(margin, total_margin), 100 * SCALE) ELSE 0

\* Lines 286-304
InitialMarginResult(acc, calculation_method) ==
    [status |-> "ok",
     total_margin |-> acc.total_margin,
     calculation_method |-> calculation_method,
     asset_class_breakdown |->
         Tuple([i \in 1..Len(acc.all_margins) |->
             [asset_class |-> acc.all_margins[i].key,
              margin |-> acc.all_margins[i].value,
              percentage |-> MarginPercentage(acc.all_margins[i].value,
                                              acc.total_margin)]]),
     sensitivity_breakdown |-> acc.sensitivity_breakdown,
     netting_set_results |-> acc.netting_set_results]

\* ------------------------------------------------------------------------
\* State
\* ------------------------------------------------------------------------
VARIABLES
    rng,        \* the process-wide numpy generator
    rng_before, \* Some(the generator state the request in progress found) or None
    phase,      \* where the request in progress stands
    request,    \* Some(the input of the request in progress) or None
    outcome,    \* Some(what the service returned or raised) or None
    http,       \* the status the endpoint answered with, 0 before it answers
    threads,    \* the VaR invocations running on threads of the process
    work        \* Some(the loop state of the SA-CCR or PFE call in progress) or None

var_vars == <<rng_before, phase, request, outcome, http>>

vars == <<rng, var_vars, threads, work>>

\* where a thread stands that runs no invocation
IdleThread == [pc |-> "idle"]

NumThreads == 2

Threads == 1..NumThreads

Init ==
    /\ rng = FreshRng
    /\ rng_before = None
    /\ phase = "idle"
    /\ request = None
    /\ outcome = None
    /\ http = 0
    /\ threads = [t \in Threads |-> IdleThread]
    /\ work = None

\* ------------------------------------------------------------------------
\* VaR requests, one after the other
\* ------------------------------------------------------------------------
\* The endpoint is called with input_data and calls VaRService.calculate_var.
\* Requests that name another method than Monte Carlo carry the default
\* num_simulations; Monte Carlo requests give a count of their own or null.
\* A body the schema rejects never reaches calculate_var.
Returned(r) ==
    /\ outcome' = Some(r.outcome)
    /\ rng' = r.rng

VarRequest(input) ==
    /\ phase = "idle"
    /\ input.method # "monte_carlo" => input.num_simulations = Some(DefaultSimulations)
    /\ input.method = "monte_carlo" => input.num_simulations # Some(DefaultSimulations)
    /\ IF VaRInputStatus(input) # "ok"
       THEN outcome' = Some(Failure(VaRInputStatus(input))) /\ rng' = rng
       ELSE Returned(calculate_var(input, rng))
    /\ rng_before' = Some(rng)
    /\ request' = Some(input)
    /\ phase' = "returned"
    /\ UNCHANGED <<http, threads, work>>

\* The endpoint returns the result or turns the exception into a status.
VarRespond ==
    /\ phase = "returned"
    /\ \E linalg_is_value_error \in BOOLEAN :
           http' = HttpStatus(outcome[1], linalg_is_value_error)
    /\ phase' = "responded"
    /\ UNCHANGED <<rng, rng_before, request, outcome, threads, work>>

\* The request is over; the process stays up for the next one.
VarDone ==
    /\ phase = "responded"
    /\ phase' = "idle"
    /\ request' = None
    /\ outcome' = None
    /\ http' = 0
    /\ rng_before' = None
    /\ UNCHANGED <<rng, threads, work>>

NextVar ==
    \/ \E input \in VarInputs : VarRequest(input)
    \/ VarRespond
    \/ VarDone

SpecVar == Init /\ [][NextVar]_vars

\* ------------------------------------------------------------------------
\* Parametric VaR requests over portfolios of up to MaxParametricPositions
\* positions, each pair of positions with the correlation one of the two
\* supplies, or with none
\* ------------------------------------------------------------------------
MaxParametricPositions == 3

PairCorrelations == {-SCALE, 0, SCALE}

\* the pairs (i, j), i < j, of n positions
PairsOf(n) == {pr \in (1..n) \X (1..n) : pr[1] < pr[2]}

\* which pairs come with a correlation, and with which
PairChoices(n) ==
    UNION {[given -> PairCorrelations] : given \in SUBSET PairsOf(n)}

\* position i of n: its map names the later positions of the pairs chosen
ParametricPosition(i, n, quantity, volatility, choice) ==
    [id |-> PosIds[i], asset_class |-> "equity", quantity |-> quantity,
     price |-> 100 * SCALE, volatility |-> volatility,
     correlation |-> [id \in {PosIds[j] : j \in {k \in 1..n : <<i, k>> \in DOMAIN choice}} |->
                         choice[<<i, CHOOSE k \in 1..n : PosIds[k] = id>>]]]

\* the first position alone varies in quantity and volatility
ParametricPortfolios ==
    UNION {{Tuple([i \in 1..n |->
                ParametricPosition(i, n, IF i = 1 THEN q ELSE SCALE,
                                   IF i = 1 THEN v ELSE None, choice)]) :
              q \in {SCALE, 2 * SCALE}, v \in {None, Some(300)},
              choice \in PairChoices(n)} :
           n \in 1..MaxParametricPositions}

ParametricInputs ==
    {[positions |-> ps, method |-> "parametric", confidence_level |-> cl,
      time_horizon |-> th, num_simulations |-> Some(DefaultSimulations),
      include_stress_scenarios |-> FALSE] :
        ps \in ParametricPortfolios, cl \in RequestConfidenceLevels,
        th \in RequestTimeHorizons}

NextParametric ==
    \/ \E input \in ParametricInputs : VarRequest(input)
    \/ VarRespond
    \/ VarDone

SpecParametric == Init /\ [][NextParametric]_vars

\* ------------------------------------------------------------------------
\* Historical and Monte Carlo invocations on concurrent threads
\* ------------------------------------------------------------------------
\* The routines call np.random.seed and np.random.normal on the generator
\* of the process; between two calls another thread may run.

\* The portfolios the threads are given: positions without correlations
ThreadPortfolios ==
    {ps \in Portfolios : \A i \in 1..Len(ps) : ps[i].correlation = EmptyMap}

ThreadInputs ==
    {input \in VarInputs :
        /\ VaRInputStatus(input) = "ok"
        /\ input.positions \in ThreadPortfolios
        /\ input.method \in {"historical", "monte_carlo"}
        /\ input.confidence_level = "95%"
        /\ input.time_horizon = "1d"
        /\ input.num_simulations = Some(1000)
        /\ ~input.include_stress_scenarios}

\* the number of np.random.normal calls the routine makes
DrawCalls(input) ==
    IF input.method = "historical" THEN Len(input.positions)
    ELSE SimCount(input.num_simulations[1])

\* Lines 222-234 and 346-376: the routine runs up to its np.random.seed
\* call; the Monte Carlo routine factors the correlation matrix first.
ThreadStart(t, input) ==
    /\ threads[t].pc = "idle"
    /\ LET ch == Cholesky(correlation_matrix(input.positions), Len(input.positions))
       IN  threads' = [threads EXCEPT ![t] =
               IF input.method = "monte_carlo" /\ ~ch.ok
               THEN [pc |-> "done", input |-> input, result |-> Failure("LinAlgError")]
               ELSE [pc |-> "seed", input |-> input, drawn |-> <<>>,
                     l |-> IF input.method = "monte_carlo" THEN ch.l ELSE <<>>]]
    /\ UNCHANGED <<rng, var_vars, work>>

\* Lines 236 and 379: np.random.seed(42)
ThreadSeed(t) ==
    /\ threads[t].pc = "seed"
    /\ rng' = Seed42(rng)
    /\ threads' = [threads EXCEPT ![t].pc = "draw"]
    /\ UNCHANGED <<var_vars, work>>

\* Lines 249 and 385: the next np.random.normal call, the series of the
\* next position (historical) or the z of the next simulation (Monte Carlo)
ThreadDraw(t) ==
    /\ threads[t].pc = "draw"
    /\ Len(threads[t].drawn) < DrawCalls(threads[t].input)
    /\ LET input == threads[t].input
           k     == Len(threads[t].drawn) + 1
           sigma == IF input.method = "historical"
                    THEN DailyVolatility(input.positions[k]) ELSE SCALE
           count == IF input.method = "historical"
                    THEN HistCount ELSE Len(input.positions)
       IN  /\ threads' = [threads EXCEPT
                 ![t].drawn = Append(@, Normal(rng, sigma, count))]
           /\ rng' = Advance(rng, count)
    /\ UNCHANGED <<var_vars, work>>

\* Lines 252-326 and 403-467: the figures computed from the values drawn
ThreadResult(th) ==
    IF th.input.method = "historical"
    THEN SimulationResult(th.input.positions, th.input.confidence_level,
             th.input.time_horizon, th.drawn, HistCount)
    ELSE SimulationResult(th.input.positions, th.input.confidence_level,
             th.input.time_horizon,
             MonteCarloSeries(th.input.positions, th.l, th.drawn),
             SimCount(th.input.num_simulations[1]))

ThreadFinish(t) ==
    /\ threads[t].pc = "draw"
    /\ Len(threads[t].drawn) = DrawCalls(threads[t].input)
    /\ threads' = [threads EXCEPT ![t] =
           [pc |-> "done", input |-> threads[t].input,
            result |-> ThreadResult(threads[t])]]
    /\ UNCHANGED <<rng, var_vars, work>>

NextThreads ==
    \/ \E t \in Threads, input \in ThreadInputs : ThreadStart(t, input)
    \/ \E t \in Threads : ThreadSeed(t)
    \/ \E t \in Threads : ThreadDraw(t)
    \/ \E t \in Threads : ThreadFinish(t)

SpecThreads == Init /\ [][NextThreads]_vars

\* ------------------------------------------------------------------------
\* SA-CCR and PFE requests, one after the other
\* ------------------------------------------------------------------------
\* The requests the model sends.  Amounts are in units of the currency.
MaxTrades == 2

MaxNettingSets == 2

NettingSetIds == <<"n1", "n2", "n3", "n4">>

TradeIds == <<"t1", "t2", "t3", "t4">>

Swap(asset_class, supervisory_delta) ==
    [asset_class |-> asset_class, transaction_type |-> "swap",
     notional |-> 100 * SCALE, maturity |-> SCALE \div 2,
     underlying_price |-> None, strike_price |-> None, option_type |-> Omitted,
     option_style |-> Omitted, volatility |-> None, interest_rate |-> None,
     supervisory_delta |-> supervisory_delta, supervisory_factor |-> None,
     maturity_factor |-> None]

Option(option_type, volatility, supervisory_delta) ==
    [asset_class |-> "equity", transaction_type |-> "option",
     notional |-> 100 * SCALE, maturity |-> SCALE \div 2,
     underlying_price |-> Some(SCALE), strike_price |-> Some(SCALE),
     option_type |-> option_type, option_style |-> Omitted,
     volatility |-> volatility, interest_rate |-> Some(50),
     supervisory_delta |-> supervisory_delta, supervisory_factor |-> None,
     maturity_factor |-> None]

\* Transactions of a request body, before their id is given
RequestTransactions ==
    {Swap(ac, sd) : ac \in {"interest_rate", "equity"}, sd \in {None, Some(0)}}
    \cup {Swap("interest_rate", Some(-SCALE))}
    \cup {Option(Some(ot), Some(200), None) : ot \in {"call", "put"}}
    \cup {Option(Some("call"), None, sd) : sd \in {None, Some(SCALE \div 2)}}
    \cup {Option(Omitted, Some(200), sd) : sd \in {None, Some(SCALE \div 2)}}
    \cup {Option(None, Some(200), None)}
    \cup {[Swap("equity", None) EXCEPT !.notional = 0]}

PfeTrade(asset_class, transaction_type, supervisory_delta) ==
    [asset_class |-> asset_class, transaction_type |-> transaction_type,
     notional |-> 100 * SCALE, maturity |-> 2 * SCALE, market_value |-> 2 * SCALE,
     supervisory_delta |-> supervisory_delta, supervisory_factor |-> None,
     maturity_factor |-> None]

RequestTrades ==
    {PfeTrade(ac, "swap", sd) : ac \in {"interest_rate", "equity"},
                                sd \in {None, Some(0), Some(-SCALE)}}
    \cup {PfeTrade(ac, "option", None) : ac \in {"interest_rate", "equity"}}
    \cup {[PfeTrade("equity", "swap", None) EXCEPT !.notional = 0]}

RECURSIVE ListsOf(_, _)
\* the lists of n elements of pool; element i gets the i-th id of TradeIds
ListsOf(pool, n) ==
    IF n = 0 THEN {<<>>}
    ELSE {Append(l, [id |-> TradeIds[n]] @@ e) : l \in ListsOf(pool, n - 1), e \in pool}

\* The lists of at most MaxNettingSets netting sets holding at most MaxTrades
\* trades together; sizes[i] is the number of trades of netting set i.
NettingSetSizes ==
    UNION {{sz \in [1..k -> 0..MaxTrades] : SumSeq(sz) <= MaxTrades} :
               k \in 1..MaxNettingSets}

\* The ids of a list of k netting sets: all different, or all the same
NettingSetIdChoices(k) ==
    {[i \in 1..k |-> NettingSetIds[i]], [i \in 1..k |-> NettingSetIds[1]]}

RECURSIVE ProductOf(_, _)
\* the lists whose element i is drawn from sets[i], from element k on
ProductOf(sets, k) ==
    IF k > Len(sets) THEN {<<>>}
    ELSE {<<e>> \o rest : e \in sets[k], rest \in ProductOf(sets, k + 1)}

RequestCollaterals == {0, 3 * SCALE}

\* Two transactions of more than one year: an interest-rate swap of
\* notional 1,000,000 and 3 years, and an equity swap with a maturity factor
\* of its own
LongTransactions ==
    {[Swap("interest_rate", None) EXCEPT !.notional = 1000 * 1000 * SCALE,
                                         !.maturity = 3 * SCALE],
     [Swap("equity", None) EXCEPT !.maturity = 3 * SCALE,
                                  !.maturity_factor = Some(SCALE \div 4)]}

\* Transactions that give the fields no calculation reads: a supervisory
\* factor, and an option style (a style, or an explicit null)
StyledTransactions ==
    {[Option(Some("call"), Some(200), None) EXCEPT !.option_style = os] :
        os \in {None, Some("european")}}
    \cup {[Swap("interest_rate", None) EXCEPT !.option_style = None],
          [Swap("equity", None) EXCEPT !.supervisory_factor = Some(SCALE)]}

SACCRRequests ==
    {<<[id |-> NettingSetIds[1], transactions |-> txs, collateral |-> 0]>> :
        txs \in ListsOf(LongTransactions \cup StyledTransactions, 1)}
    \cup
    UNION {UNION {{Tuple([i \in 1..Len(sz) |->
                      [id |-> ids[i], transactions |-> txs[i],
                       collateral |-> IF i = 1 THEN c ELSE 0]]) :
                    txs \in ProductOf(Tuple([i \in 1..Len(sz) |->
                                ListsOf(RequestTransactions, sz[i])]), 1),
                    c \in RequestCollaterals} :
                  ids \in NettingSetIdChoices(Len(sz))} :
           sz \in NettingSetSizes}

PfeCollaterals ==
    {<<>>, <<[id |-> "c1", amount |-> 2 * SCALE, currency |-> "USD",
              haircut |-> SCALE \div 2]>>}

PfeSettings ==
    {[calculation_method |-> m, time_horizon |-> hc[1], confidence_level |-> hc[2]] :
        m \in PFEMethods,
        hc \in {<<"1y", "97.5%">>, <<"1m", "97.5%">>, <<"1y", "99%">>}}

PFERequests ==
    {[netting_sets |->
          <<[id |-> NettingSetIds[1],
             trades |-> <<[id |-> TradeIds[1]]
                              @@ [PfeTrade("equity", "swap", None)
                                     EXCEPT !.supervisory_factor = Some(SCALE)]>>,
             collateral |-> <<>>]>>] @@ x : x \in PfeSettings}
    \cup
    UNION {UNION {{[st EXCEPT !.netting_sets = ns] :
                     st \in {[netting_sets |-> <<>>] @@ x : x \in PfeSettings},
                     ns \in {Tuple([i \in 1..Len(sz) |->
                                [id |-> ids[i], trades |-> txs[i],
                                 collateral |-> IF i = 1 THEN c ELSE <<>>]]) :
                              txs \in ProductOf(Tuple([i \in 1..Len(sz) |->
                                          ListsOf(RequestTrades, sz[i])]), 1),
                              c \in PfeCollaterals}} :
                  ids \in NettingSetIdChoices(Len(sz))} :
           sz \in NettingSetSizes}

\* PFEInput(...) from a request body: Trade notional and maturity must be
\* positive, Collateral amount >= 0 and 0 <= haircut <= 1 (schemas/pfe.py).
PFEInputStatus(input) ==
    IF \E i \in 1..Len(input.netting_sets) :
          \/ \E k \in 1..Len(input.netting_sets[i].trades) :
                 \/ input.netting_sets[i].trades[k].notional <= 0
                 \/ input.netting_sets[i].trades[k].maturity <= 0
          \/ \E k \in 1..Len(input.netting_sets[i].collateral) :
                 \/ input.netting_sets[i].collateral[k].amount < 0
                 \/ input.netting_sets[i].collateral[k].haircut < 0
                 \/ input.netting_sets[i].collateral[k].haircut > SCALE
    THEN "RequestValidationError"
    ELSE "ok"

\* The loop state of a call: the figures accumulated, the index of the next
\* netting set and what the last turn computed.
Work(acc) == [acc |-> acc, next |-> 1, locals |-> None]

\* A request body that fails to build the input never reaches the service.
Rejected(engine, body, status) ==
    /\ request' = Some([engine |-> engine, body |-> body])
    /\ outcome' = Some([status |-> status])
    /\ phase' = "returned"
    /\ work' = None

\* POST /saccr/calculate: the body is validated, then calculate_saccr starts
SaccrRequest(raw) ==
    /\ phase = "idle"
    /\ IF SACCRInputStatus(raw) # "ok"
       THEN Rejected("saccr", raw, SACCRInputStatus(raw))
       ELSE /\ request' = Some([engine |-> "saccr", body |-> raw,
                                input |-> SACCRInput(raw)])
            /\ work' = Some(Work(SACCRStart))
            /\ phase' = "running"
            /\ outcome' = None
    /\ UNCHANGED <<rng, rng_before, http, threads>>

\* what a turn of the loop leaves: the figures of the turn, or the exception
TurnTaken(turn) ==
    IF turn.status = "ok"
    THEN /\ work' = Some([acc |-> turn.acc, next |-> work[1].next + 1,
                          locals |-> Some(turn.locals)])
         /\ UNCHANGED <<phase, outcome>>
    ELSE /\ outcome' = Some([status |-> turn.status])
         /\ phase' = "returned"
         /\ UNCHANGED work

\* calculate_saccr, one turn of "for netting_set in input_data.netting_sets"
SaccrNettingSet ==
    /\ phase = "running"
    /\ request[1].engine = "saccr"
    /\ work[1].next <= Len(request[1].input)
    /\ TurnTaken(SACCRNettingSet(work[1].acc, request[1].input[work[1].next]))
    /\ UNCHANGED <<rng, rng_before, request, http, threads>>

\* calculate_saccr after the loop: the SACCRResult is built
SaccrFinish ==
    /\ phase = "running"
    /\ request[1].engine = "saccr"
    /\ work[1].next > Len(request[1].input)
    /\ work' = Some([work[1] EXCEPT !.acc = SACCRTotals(@)])
    /\ outcome' = Some(SACCRResult(SACCRTotals(work[1].acc)))
    /\ phase' = "returned"
    /\ UNCHANGED <<rng, rng_before, request, http, threads>>

\* POST /pfe/calculate: the body is validated, then calculate_pfe starts
PfeRequest(input) ==
    /\ phase = "idle"
    /\ IF PFEInputStatus(input) # "ok"
       THEN Rejected("pfe", input, PFEInputStatus(input))
       ELSE /\ request' = Some([engine |-> "pfe", body |-> input, input |-> input])
            /\ work' = Some(Work(PFEStart))
            /\ phase' = "running"
            /\ outcome' = None
    /\ UNCHANGED <<rng, rng_before, http, threads>>

\* calculate_pfe, one turn of "for netting_set in input_data.netting_sets"
PfeNettingSet ==
    /\ phase = "running"
    /\ request[1].engine = "pfe"
    /\ work[1].next <= Len(request[1].input.netting_sets)
    /\ TurnTaken([status |-> "ok"] @@
                 PFENettingSet(work[1].acc,
                               request[1].input.netting_sets[work[1].next],
                               request[1].input))
    /\ UNCHANGED <<rng, rng_before, request, http, threads>>

\* calculate_pfe after the loop: the PFEResult is built
PfeFinish ==
    /\ phase = "running"
    /\ request[1].engine = "pfe"
    /\ work[1].next > Len(request[1].input.netting_sets)
    /\ outcome' = Some(PFEResult(work[1].acc, request[1].input))
    /\ phase' = "returned"
    /\ UNCHANGED <<rng, rng_before, request, http, threads, work>>

\* The status of the response (endpoints/saccr.py, endpoints/pfe.py): a body
\* that fails validation is answered 422 by the framework, an exception its
\* validation raises that is no validation error is answered 500; in the
\* handler ValueError (pydantic's ValidationError is one) gives 400 and any
\* other exception 500.
ExposureHttpStatus(out) ==
    CASE out.status = "ok" -> 200
      [] out.status = "RequestValidationError" -> 422
      [] out.status \in {"ValueError", "ValidationError"} -> 400
      [] OTHER -> 500

ExposureRespond ==
    /\ phase = "returned"
    /\ request[1].engine \in {"saccr", "pfe"}
    /\ http' = ExposureHttpStatus(outcome[1])
    /\ phase' = "responded"
    /\ UNCHANGED <<rng, rng_before, request, outcome, threads, work>>

ExposureDone ==
    /\ phase = "responded"
    /\ request[1].engine \in {"saccr", "pfe"}
    /\ phase' = "idle"
    /\ request' = None
    /\ outcome' = None
    /\ http' = 0
    /\ work' = None
    /\ UNCHANGED <<rng, rng_before, threads>>

NextExposure ==
    \/ \E raw \in SACCRRequests : SaccrRequest(raw)
    \/ SaccrNettingSet
    \/ SaccrFinish
    \/ \E input \in PFERequests : PfeRequest(input)
    \/ PfeNettingSet
    \/ PfeFinish
    \/ ExposureRespond
    \/ ExposureDone

SpecExposure == Init /\ [][NextExposure]_vars

\* ------------------------------------------------------------------------
\* PFE requests under every time horizon (SA-CCR method, 97.5%, netting sets
\* with ids of their own)
\* ------------------------------------------------------------------------
DistinctIds(netting_sets) ==
    \A i, j \in 1..Len(netting_sets) :
        i # j => netting_sets[i].id # netting_sets[j].id

ProfileRequests ==
    {[input EXCEPT !.time_horizon = h] :
        input \in {r \in PFERequests : /\ r.calculation_method = "sa_ccr"
                                       /\ r.time_horizon = "1y"
                                       /\ r.confidence_level = "97.5%"
                                       /\ DistinctIds(r.netting_sets)},
        h \in PFETimeHorizons}

NextProfile ==
    \/ \E input \in ProfileRequests : PfeRequest(input)
    \/ PfeNettingSet
    \/ PfeFinish
    \/ ExposureRespond
    \/ ExposureDone

SpecProfile == Init /\ [][NextProfile]_vars

\* ------------------------------------------------------------------------
\* Initial margin requests
\* ------------------------------------------------------------------------
MarginMethods == {"grid", "simm"}

\* one maturity in each bucket of get_maturity_bucket
RequestMaturities == {1 * SCALE, 3 * SCALE, 7 * SCALE}

\* delta, vega and curvature of a trade: all left out, or all given
RequestSensitivities(product) ==
    IF product \in OptionProducts
    THEN {[delta |-> None, vega |-> None, curvature |-> None],
          [delta |-> Some(SCALE \div 2), vega |-> Some(0 - 300), curvature |-> Some(20)]}
    ELSE {[delta |-> None, vega |-> None, curvature |-> None],
          [delta |-> Some(0 - SCALE), vega |-> Some(200), curvature |-> Some(20)]}

MarginTrade(asset_class, product, notional, maturity) ==
    [asset_class |-> asset_class, product |-> product, notional |-> notional,
     maturity |-> maturity, market_value |-> 0]

MarginTrades ==
    UNION {{MarginTrade(ac, pr, IF pr = "swap" THEN 1000 * SCALE ELSE 400 * SCALE, m)
                @@ sens :
                ac \in {"interest_rate", "equity"}, m \in RequestMaturities,
                sens \in RequestSensitivities(pr)} :
           pr \in {"swap", "option"}}
    \cup {MarginTrade("equity", "swap", 0, SCALE) @@ sens :
              sens \in RequestSensitivities("swap")}

\* one equity trade of notional 1,000,000 and maturity 1 year
MillionEquityTrade ==
    [id |-> TradeIds[1], delta |-> None, vega |-> None, curvature |-> None]
        @@ MarginTrade("equity", "swap", 1000 * 1000 * SCALE, SCALE)

MarginRequests ==
    {[netting_sets |-> <<[id |-> NettingSetIds[1], trades |-> <<MillionEquityTrade>>]>>,
      calculation_method |-> m] : m \in MarginMethods}
    \cup
    UNION {UNION {{[netting_sets |-> Tuple([i \in 1..Len(sz) |->
                                        [id |-> ids[i], trades |-> txs[i]]]),
                    calculation_method |-> m] :
                     txs \in ProductOf(Tuple([i \in 1..Len(sz) |->
                                 ListsOf(MarginTrades, sz[i])]), 1),
                     m \in MarginMethods} :
                  ids \in NettingSetIdChoices(Len(sz))} :
           sz \in NettingSetSizes}

\* InitialMarginInput(...) from a request body: Trade notional and maturity
\* must be positive (schemas/initial_margin.py 59-83)
InitialMarginInputStatus(input) ==
    IF \E i \in 1..Len(input.netting_sets) :
           \E k \in 1..Len(input.netting_sets[i].trades) :
               \/ input.netting_sets[i].trades[k].notional <= 0
               \/ input.netting_sets[i].trades[k].maturity <= 0
    THEN "RequestValidationError"
    ELSE "ok"

\* POST /initial-margin/calculate: the body is validated, then
\* calculate_initial_margin starts
MarginRequest(input) ==
    /\ phase = "idle"
    /\ IF InitialMarginInputStatus(input) # "ok"
       THEN Rejected("im", input, InitialMarginInputStatus(input))
       ELSE /\ request' = Some([engine |-> "im", body |-> input, input |-> input])
            /\ work' = Some(Work(IMStart))
            /\ phase' = "running"
            /\ outcome' = None
    /\ UNCHANGED <<rng, rng_before, http, threads>>

\* calculate_initial_margin, one turn of
\* "for netting_set in input_data.netting_sets"
MarginNettingSet ==
    /\ phase = "running"
    /\ request[1].engine = "im"
    /\ work[1].next <= Len(request[1].input.netting_sets)
    /\ TurnTaken(IMNettingSet(work[1].acc,
                              request[1].input.netting_sets[work[1].next],
                              request[1].input.calculation_method))
    /\ UNCHANGED <<rng, rng_before, request, http, threads>>

\* calculate_initial_margin after the loop: the InitialMarginResult is built
MarginFinish ==
    /\ phase = "running"
    /\ request[1].engine = "im"
    /\ work[1].next > Len(request[1].input.netting_sets)
    /\ outcome' = Some(InitialMarginResult(work[1].acc,
                                           request[1].input.calculation_method))
    /\ phase' = "returned"
    /\ UNCHANGED <<rng, rng_before, request, http, threads, work>>

\* endpoints/initial_margin.py 39-48
MarginRespond ==
    /\ phase = "returned"
    /\ request[1].engine = "im"
    /\ http' = ExposureHttpStatus(outcome[1])
    /\ phase' = "responded"
    /\ UNCHANGED <<rng, rng_before, request, outcome, threads, work>>

MarginDone ==
    /\ phase = "responded"
    /\ request[1].engine = "im"
    /\ phase' = "idle"
    /\ request' = None
    /\ outcome' = None
    /\ http' = 0
    /\ work' = None
    /\ UNCHANGED <<rng, rng_before, threads>>

NextMargin ==
    \/ \E input \in MarginRequests : MarginRequest(input)
    \/ MarginNettingSet
    \/ MarginFinish
    \/ MarginRespond
    \/ MarginDone

SpecMargin == Init /\ [][NextMargin]_vars

\* ------------------------------------------------------------------------
\* Properties of the VaR service
\* ------------------------------------------------------------------------
Tolerance == SCALE \div 100

\* a and b agree within one percent of b and the rounding of the arithmetic
Close(a, b) == Abs(a - b) <= Tolerance + Abs(b) \div 100

ContributionSum(out) ==
    SumSeq(Tuple([i \in 1..Len(out.asset_contributions) |->
                     out.asset_contributions[i].var_contribution]))

PercentageSum(out) ==
    SumSeq(Tuple([i \in 1..Len(out.asset_contributions) |->
                     out.asset_contributions[i].var_contribution_percentage]))

ParametricReturned ==
    /\ phase = "returned"
    /\ request[1].method = "parametric"
    /\ Len(request[1].positions) >= 1
    /\ outcome[1].status = "ok"

\* C1: for every parametric portfolio with at least one position, the
\* var_contribution values sum to the diversified VaR returned and the
\* contribution percentages to 100; a single position has contribution =
\* VaR and percentage = 100.
C1_ContributionsSumToVar ==
    ParametricReturned =>
        /\ Close(ContributionSum(outcome[1]), outcome[1].var)
        /\ Close(PercentageSum(outcome[1]), 100 * SCALE)

Simulated(input) ==
    \/ input.method \in {"historical", "monte_carlo"}
    \/ input.include_stress_scenarios /\ Len(input.positions) > 0

\* calculate_var was called for the request and has returned or raised
VarServed == phase = "returned" /\ VaRInputStatus(request[1]) = "ok"

\* C3: whatever calls were served before, a call of calculate_var returns
\* what the same input returns in a process that has served no call, so two
\* calls with identical input return identical results (all three methods,
\* with or without stress scenarios).
C3_SameInputSameResult ==
    VarServed =>
        outcome[1] = calculate_var(request[1], FreshRng).outcome

\* A simulated call has returned a result after earlier calls had drawn
\* from the generator.
C3_Witness ==
    /\ phase = "returned"
    /\ Simulated(request[1])
    /\ outcome[1].status = "ok"
    /\ rng_before[1].seed = "42"
    /\ rng_before[1].pos > 0

\* C4: after calculate_var returns, whatever the method and with stress
\* scenarios on or off, the shared random-number generator is in the state
\* the call found it in.
C4_GeneratorUnchanged ==
    phase = "returned" => rng = rng_before[1]

IsZeroDenominator(input, out) ==
    \/ calculate_portfolio_value(input.positions) = 0
    \/ out.status = "ok" /\ out.var = 0
    \/ out.status = "ok" /\ out.var + out.diversification_benefit = 0

\* C6: whenever the portfolio value, the VaR or the undiversified VaR is
\* zero (in particular for a portfolio with no positions), calculate_var
\* returns a result whose var_percentage, contribution percentages and
\* diversification_benefit_percentage are 0.
C6_ZeroDenominatorsGiveZero ==
    VarServed /\ IsZeroDenominator(request[1], outcome[1]) =>
        /\ outcome[1].status = "ok"
        /\ outcome[1].var_percentage = 0
        /\ outcome[1].diversification_benefit_percentage = 0
        /\ \A i \in 1..Len(outcome[1].asset_contributions) :
               outcome[1].asset_contributions[i].var_contribution_percentage = 0

\* The failures of a calculation: numpy's Cholesky factorization refused
\* (LinAlgError), math.sqrt of a negative variance (ValueError, "math domain
\* error") and a division by zero.  calculate_var raises no validation error
\* for a request the schema accepted.
NumericalFailure(out) ==
    out.status \in {"LinAlgError", "ValueError", "ZeroDivisionError"}

\* C7: only engine-raised validation errors are answered with a 4xx status;
\* a numerical failure (Cholesky factorization, square root of a negative
\* variance, division by zero) is answered with a 5xx status.
C7_NumericalFailureIs5xx ==
    phase = "responded" /\ NumericalFailure(outcome[1]) => http >= 500

\* position i supplies a correlation toward position j
Supplies(positions, i, j) == positions[j].id \in DOMAIN positions[i].correlation

\* the matrix is symmetric, its diagonal is 1.0 and a pair for which neither
\* position supplies a value is 0.5
WellFormedCorrelations(positions, m) ==
    \A i \in 1..Len(positions) :
        /\ m[i][i] = SCALE
        /\ \A j \in 1..Len(positions) :
               /\ m[i][j] = m[j][i]
               /\ (i # j /\ ~Supplies(positions, i, j) /\ ~Supplies(positions, j, i))
                      => m[i][j] = DefaultCorrelation

\* C12: the correlation matrix the Parametric and Monte Carlo routines build
\* is symmetric, has diagonal 1.0 and 0.5 for every pair nobody supplies.
C12_CorrelationMatrixWellFormed ==
    (VarServed /\ request[1].method \in {"parametric", "monte_carlo"})
        => WellFormedCorrelations(request[1].positions,
                                  correlation_matrix(request[1].positions))

\* what the claim demands of a position that reaches the engine
WithinBounds(p) ==
    /\ p.quantity > 0
    /\ p.price > 0
    /\ p.volatility # None => p.volatility[1] > 0
    /\ \A id \in DOMAIN p.correlation :
           p.correlation[id] >= -SCALE /\ p.correlation[id] <= SCALE

\* C13: every position of a request that reaches calculate_var has
\* quantity > 0, price > 0, volatility > 0 when present and every value of its
\* correlation map within [-1, 1].
C13_PositionsWithinBounds ==
    VarServed => \A i \in 1..Len(request[1].positions) :
                     WithinBounds(request[1].positions[i])

\* C14: for an accepted request with the Monte Carlo method the routine
\* is run with an integer simulation count of at least 1000.
C14_MonteCarloCountAtLeast1000 ==
    (VarServed /\ request[1].method = "monte_carlo")
        => /\ request[1].num_simulations # None
           /\ request[1].num_simulations[1] >= MinSimulations
           /\ outcome[1].status # "TypeError"

\* calculate_var was called with stress scenarios asked for, and the stress
\* runs have positions to work on
StressRequested ==
    /\ VarServed
    /\ request[1].include_stress_scenarios
    /\ Len(request[1].positions) >= 1

\* the scenarios, by their place in STRESS_SCENARIOS
ScenarioIndexes == 1..Len(StressScenarioNames)

\* C15: the volatility of a position in the stressed Monte Carlo run is its
\* base volatility (supplied, or the 0.20 default) times the volatility
\* multiplier of the scenario times the factor of its asset class.
C15_StressedVolatility ==
    StressRequested
        => \A k \in ScenarioIndexes : \A i \in 1..Len(request[1].positions) :
               PositionVolatility(StressedPortfolio(request[1].positions, k)[i])
                   = FMul(FMul(PositionVolatility(request[1].positions[i]),
                               VolatilityMultiplier(k)),
                          AssetClassImpact(k, request[1].positions[i].asset_class))

\* C16: an off-diagonal correlation of the stressed run is min(1.0, the
\* correlation the base case uses for the pair + the increment of the scenario).
C16_StressedCorrelation ==
    StressRequested
        => \A k \in ScenarioIndexes :
           \A i, j \in 1..Len(request[1].positions) :
               i # j =>
                   correlation_matrix(StressedPortfolio(request[1].positions, k))[i][j]
                       = Min(SCALE, correlation_matrix(request[1].positions)[i][j]
                                        + CorrelationIncrease(k))

ValidCorrelations(positions) ==
    \A i \in 1..Len(positions) : \A id \in DOMAIN positions[i].correlation :
        positions[i].correlation[id] >= -SCALE /\ positions[i].correlation[id] <= SCALE

\* the base VaR of the request in progress, as the method's routine gave it
RequestBaseVar == BaseVar(request[1], rng_before[1]).result

\* C17: with stress scenarios asked for, at least one position, correlations
\* in [-1, 1] and the base VaR computed, the request returns a result with
\* the three stress entries in the order of STRESS_SCENARIOS, each with
\* var_increase = stressed VaR - base VaR.
C17_ThreeStressEntries ==
    (StressRequested /\ ValidCorrelations(request[1].positions)
                     /\ RequestBaseVar.status = "ok")
        => /\ outcome[1].status = "ok"
           /\ Len(outcome[1].stress_scenarios[1]) = Len(StressScenarioNames)
           /\ \A k \in ScenarioIndexes :
                  /\ outcome[1].stress_scenarios[1][k].name = StressScenarioNames[k]
                  /\ outcome[1].stress_scenarios[1][k].var_increase
                         = NpSub(outcome[1].stress_scenarios[1][k].var, outcome[1].var)

\* a parametric request went through calculate_var
ParametricServed == VarServed /\ request[1].method = "parametric"

\* no position names itself in its correlation map
PairwiseOnly(positions) ==
    \A i \in 1..Len(positions) : ~Supplies(positions, i, i)

\* every pair of positions has correlation 1 in the matrix the routine builds
AllPerfectlyCorrelated(positions) ==
    \A i, j \in 1..Len(positions) : correlation_matrix(positions)[i][j] = SCALE

\* two positions of equal value and volatility with correlation 0
EqualUncorrelatedPair(positions) ==
    /\ Len(positions) = 2
    /\ PositionValue(positions[1]) = PositionValue(positions[2])
    /\ PositionVolatility(positions[1]) = PositionVolatility(positions[2])
    /\ correlation_matrix(positions)[1][2] = 0

\* C22: for a portfolio of positions with positive values and volatilities
\* and pairwise correlations in [-1, 1], the parametric routine returns a
\* diversification benefit >= 0 (within the rounding of the arithmetic), the
\* benefit is 0 only if every pairwise correlation is 1, and two positions of
\* equal value and volatility with correlation 0 have a diversified VaR whose
\* square is twice the square of the VaR of one of them.
C22_DiversificationBenefit ==
    (/\ ParametricServed
     /\ Len(request[1].positions) >= 1
     /\ PairwiseOnly(request[1].positions)
     /\ ValidCorrelations(request[1].positions))
        => /\ outcome[1].status = "ok"
           /\ outcome[1].diversification_benefit >= 0 - Tolerance
           /\ outcome[1].diversification_benefit <= Tolerance
                  => AllPerfectlyCorrelated(request[1].positions)
           /\ EqualUncorrelatedPair(request[1].positions)
                  => Close(FMul(outcome[1].var, outcome[1].var),
                           2 * FMul(PositionVar(request[1].positions[1],
                                                request[1].confidence_level,
                                                request[1].time_horizon),
                                    PositionVar(request[1].positions[1],
                                                request[1].confidence_level,
                                                request[1].time_horizon)))

\* the ways to reorder n positions
Orders(n) == {f \in [1..n -> 1..n] : \A i, j \in 1..n : i # j => f[i] # f[j]}

Reordered(positions, f) == Tuple([i \in 1..Len(positions) |-> positions[f[i]]])

\* what the parametric routine gives for the positions of the request, taken
\* in the order f
ReorderedParametric(f) ==
    calculate_parametric_var(Reordered(request[1].positions, f),
                             request[1].confidence_level, request[1].time_horizon)

\* the two results agree in status, VaR, benefit and, position by position,
\* contribution; position i of the second is position f[i] of the first
SameParametricResult(a, b, f) ==
    /\ a.status = b.status
    /\ a.var = b.var
    /\ a.diversification_benefit = b.diversification_benefit
    /\ Len(a.asset_contributions) = Len(b.asset_contributions)
    /\ \A i \in 1..Len(b.asset_contributions) :
           b.asset_contributions[i] = a.asset_contributions[f[i]]

\* C29: the parametric routine gives the same diversified VaR, the same
\* diversification benefit and the same contribution of each position for
\* every order of the positions of the portfolio.
C29_OrderOfPositionsIrrelevant ==
    ParametricServed
        => \A f \in Orders(Len(request[1].positions)) :
               SameParametricResult(
                   ReorderedParametric([i \in 1..Len(request[1].positions) |-> i]),
                   ReorderedParametric(f), f)

\* ------------------------------------------------------------------------
\* Properties of the SA-CCR and PFE services
\* ------------------------------------------------------------------------
SaccrCall == request # None /\ request[1].engine = "saccr"

PfeCall == request # None /\ request[1].engine = "pfe"

\* the option fields the Black-Scholes delta needs (services/saccr.py 103-107)
RequiredOptionFields ==
    {"underlying_price", "strike_price", "option_type", "volatility", "interest_rate"}

LacksOptionField(raw) ==
    /\ raw.transaction_type \in OptionProducts
    /\ \E f \in RequiredOptionFields :
           IF f = "option_type" THEN raw[f] \in {None, Omitted} ELSE raw[f] = None

HasLackingOption(body) ==
    \E i \in 1..Len(body) : \E k \in 1..Len(body[i].transactions) :
        LacksOptionField(body[i].transactions[k])

\* the failures that are validation errors: of the request body, of a value
\* in the service (ValueError), of a model the service builds
ValidationFailures == {"RequestValidationError", "ValueError", "ValidationError"}

\* C5: a SA-CCR call on an input holding an option or swaption that lacks a
\* required option field ends in a validation error, never in a SACCRResult.
C5_LackingOptionIsValidationError ==
    (phase = "returned" /\ SaccrCall /\ HasLackingOption(request[1].body))
        => outcome[1].status \in ValidationFailures

\* the figures of the netting set the loop has just dealt with
TurnDone == work # None /\ work[1].locals # None

TurnLocals == work[1].locals[1]

\* C8: a netting set whose total add-on is 0 has multiplier 1.0 and PFE 0,
\* without a division by the add-on, in the SA-CCR service and in the PFE
\* service; its exposure at default is then its replacement cost.
C8_ZeroAddOnNettingSet ==
    (TurnDone /\ TurnLocals.total_add_on = 0)
        => /\ TurnLocals.multiplier = SCALE
           /\ TurnLocals.pfe = 0
           /\ ~TurnLocals.divided
           /\ TurnLocals.engine = "saccr"
                  => TurnLocals.exposure_at_default = TurnLocals.replacement_cost

\* a netting set with trades, a positive replacement cost and add-on 0
C8_Witness ==
    /\ TurnDone
    /\ TurnLocals.total_add_on = 0
    /\ TurnLocals.replacement_cost > 0
    /\ TurnLocals.engine = "saccr"
    /\ request[1].input[work[1].next - 1].transactions # <<>>

BreakdownPercentages(out) ==
    SumSeq(Tuple([i \in 1..Len(out.asset_class_breakdown) |->
                     out.asset_class_breakdown[i].percentage]))

BreakdownTotal(out) ==
    SumSeq(Tuple([i \in 1..Len(out.asset_class_breakdown) |->
                     out.asset_class_breakdown[i].exposure]))

\* one percentage point
PercentagePoint == SCALE

\* C9: the asset_class_breakdown percentages of a PFEResult sum to 100 when
\* the total add-on is not zero, whatever its sign, and are all 0 when it is.
C9_BreakdownSumsTo100 ==
    (phase = "returned" /\ PfeCall /\ outcome[1].status = "ok")
        => IF BreakdownTotal(outcome[1]) # 0
           THEN Abs(BreakdownPercentages(outcome[1]) - 100 * SCALE) <= PercentagePoint
           ELSE \A i \in 1..Len(outcome[1].asset_class_breakdown) :
                    outcome[1].asset_class_breakdown[i].percentage = 0

\* the adjustment factor of a calculation method (pfe.py 258, 298)
MethodFactor(calculation_method) ==
    CASE calculation_method = "sa_ccr" -> SCALE
      [] calculation_method = "internal_model" -> 800
      [] calculation_method = "historical" -> 1100

\* multiplier * total add-on of the netting set just dealt with
TurnUnscaledPfe == FMul(TurnLocals.multiplier, TurnLocals.total_add_on)

\* ... scaled by sqrt(horizon in years) and by z / 1.96
TurnScaledPfe ==
    FMul(FMul(TurnUnscaledPfe,
              FSqrt(TIME_HORIZON_YEARS(request[1].input.time_horizon))),
         FDiv(PFE_CONFIDENCE_LEVELS(request[1].input.confidence_level), 1960))

PfeTurnDone == TurnDone /\ PfeCall

\* C10, as the code has it: under every calculation method the PFE of a
\* netting set is the adjustment factor of the method (1, 0.8, 1.1) times
\* the SA-CCR figure scaled by the horizon and the confidence level.
C10_ScaledUnderEveryMethod ==
    PfeTurnDone
        => TurnLocals.pfe
               = FMul(TurnScaledPfe, MethodFactor(request[1].input.calculation_method))

\* an Internal-Model or Historical call whose horizon or confidence level
\* scales a non-zero PFE
C10_Witness ==
    /\ PfeTurnDone
    /\ request[1].input.calculation_method # "sa_ccr"
    /\ TurnUnscaledPfe # 0
    /\ TurnScaledPfe # TurnUnscaledPfe

\* C10, as stated: under the Internal-Model and Historical methods the PFE
\* is 0.8 and 1.1 times the unscaled SA-CCR PFE.
C10_UnscaledUnderOtherMethods ==
    (PfeTurnDone /\ request[1].input.calculation_method # "sa_ccr")
        => TurnLocals.pfe
               = FMul(TurnUnscaledPfe, MethodFactor(request[1].input.calculation_method))

\* the trade of the PFE service with the fields of a SA-CCR transaction
AsTrade(transaction) ==
    [id |-> transaction.id, asset_class |-> transaction.asset_class,
     transaction_type |-> transaction.transaction_type,
     notional |-> transaction.notional, maturity |-> transaction.maturity,
     market_value |-> 0, supervisory_delta |-> transaction.supervisory_delta,
     maturity_factor |-> transaction.maturity_factor]

\* the add-ons the SA-CCR service stored for the netting set just dealt with
TurnAddOns == DictGet(work[1].acc.netting_set_results, TurnLocals.id).add_ons

TurnNettingSet == request[1].input[work[1].next - 1]

\* C11: the add-ons PFEService.calculate_add_on computes for the trades of a
\* netting set are the add-ons SACCRService.calculate_add_on computed for them.
C11_SameAddOnInBothServices ==
    (TurnDone /\ SaccrCall)
        => TurnAddOns
               = PFE_calculate_add_on(
                     [trades |-> Tuple([i \in 1..Len(TurnNettingSet.transactions) |->
                                           AsTrade(TurnNettingSet.transactions[i])])])

\* the netting sets calculate_saccr has processed so far
ProcessedNettingSets == SubSeq(request[1].input, 1, work[1].next - 1)

\* the sum of figure name over the per-netting-set results
SumOfResults(results, name) ==
    SumSeq(Tuple([i \in 1..Len(results) |-> results[i].value[name]]))

\* C20: in calculate_saccr every netting set's exposure_at_default is its
\* replacement cost plus its PFE, the totals are the sums over the netting
\* sets processed (and over the per-netting-set results when the ids differ),
\* and total_ead = total_replacement_cost + total_potential_future_exposure.
C20_StraightSums ==
    (SaccrCall /\ work # None)
        => /\ \A i \in 1..Len(work[1].acc.netting_set_results) :
                  work[1].acc.netting_set_results[i].value.exposure_at_default
                      = work[1].acc.netting_set_results[i].value.replacement_cost
                        + work[1].acc.netting_set_results[i].value.potential_future_exposure
           /\ work[1].acc.total_replacement_cost
                  = SumSeq(Tuple([i \in 1..Len(ProcessedNettingSets) |->
                        SACCR_calculate_replacement_cost(ProcessedNettingSets[i]).v]))
           /\ work[1].acc.total_potential_future_exposure
                  = SumSeq(Tuple([i \in 1..Len(ProcessedNettingSets) |->
                        calculate_potential_future_exposure(ProcessedNettingSets[i]).pfe]))
           /\ DistinctIds(ProcessedNettingSets)
                  => /\ work[1].acc.total_replacement_cost
                            = SumOfResults(work[1].acc.netting_set_results, "replacement_cost")
                     /\ work[1].acc.total_potential_future_exposure
                            = SumOfResults(work[1].acc.netting_set_results,
                                           "potential_future_exposure")
           /\ "total_ead" \in DOMAIN work[1].acc
                  => /\ work[1].acc.total_ead
                            = work[1].acc.total_replacement_cost
                              + work[1].acc.total_potential_future_exposure
                     /\ DistinctIds(ProcessedNettingSets)
                            => work[1].acc.total_ead
                                   = SumOfResults(work[1].acc.netting_set_results,
                                                  "exposure_at_default")

\* two netting sets with ids of their own, each with a replacement cost and a
\* PFE above 0, were processed and total_ead was computed
C20_Witness ==
    /\ SaccrCall /\ work # None
    /\ "total_ead" \in DOMAIN work[1].acc
    /\ Len(work[1].acc.netting_set_results) = 2
    /\ \A i \in 1..2 :
           /\ work[1].acc.netting_set_results[i].value.replacement_cost > 0
           /\ work[1].acc.netting_set_results[i].value.potential_future_exposure > 0

\* calculate_saccr has left its loop and computed total_ead
SaccrLoopDone == SaccrCall /\ work # None /\ "total_ead" \in DOMAIN work[1].acc

\* the sum of figure name over the per-asset-class results
SumOfClasses(results, name) ==
    SumSeq(Tuple([i \in 1..Len(results) |-> results[i].value[name]]))

\* the number of transactions of the asset class in the netting sets
ClassTransactions(netting_sets, asset_class) ==
    SumSeq(Tuple([i \in 1..Len(netting_sets) |->
        Len(OfAssetClass(netting_sets[i].transactions, asset_class))]))

\* every transaction of the netting sets is once in the detail list of its class
DetailsComplete(results, netting_sets) ==
    /\ \A k \in 1..Len(results) :
           Len(results[k].value.details.transactions)
               = ClassTransactions(netting_sets, results[k].key)
    /\ \A i \in 1..Len(netting_sets) : \A t \in 1..Len(netting_sets[i].transactions) :
           \E k \in 1..Len(results) :
               /\ results[k].key = netting_sets[i].transactions[t].asset_class
               /\ \E d \in 1..Len(results[k].value.details.transactions) :
                      results[k].value.details.transactions[d]
                          = TransactionDetail(netting_sets[i].transactions[t])

\* C21: summed over the asset classes, the per-class
\* potential_future_exposure is total_potential_future_exposure and the
\* per-class ead is total_ead, and every transaction is once in the detail
\* list of its asset class.
C21_ClassSharesAddUp ==
    SaccrLoopDone
        => /\ SumOfClasses(work[1].acc.asset_class_results, "potential_future_exposure")
                  = work[1].acc.total_potential_future_exposure
           /\ SumOfClasses(work[1].acc.asset_class_results, "ead") = work[1].acc.total_ead
           /\ DetailsComplete(work[1].acc.asset_class_results, ProcessedNettingSets)

\* the netting set the last turn of calculate_pfe processed, and the
\* exposure profile the turn generated for it
PfeNettingSetDone == request[1].input.netting_sets[work[1].next - 1]

TurnProfile == TurnLocals.exposure_profile

TurnTimePoints == Tuple([i \in 1..Len(TurnProfile) |-> TurnProfile[i].time_point])

\* the time points are in increasing time order, and there is one at least
IncreasingPoints(points) ==
    /\ points # <<>>
    /\ \A i, j \in 1..Len(points) :
           i < j => time_point_to_years(points[i]) < time_point_to_years(points[j])

\* the points of the bucket of horizons above one year, up to the horizon
LongHorizonPoints(time_horizon) ==
    IF time_horizon = "2y" THEN <<"1d", "1m", "3m", "6m", "1y", "2y">>
    ELSE <<"1d", "1m", "3m", "6m", "1y", "2y", "3y", "5y">>

\* C23, as the code has it: horizons of at most 1 month give
\* 1d,1w,2w,3w,1m; the 3-month horizon gives 1d,1w,2w,1m,2m,3m; 6 months
\* and 1 year give 1d,1w,1m,3m,6m,9m,1y; longer horizons give
\* 1d,1m,3m,6m,1y,2y,3y,5y up to the horizon; the points are in increasing
\* time order and the list is never empty.
C23_TimePointsByBucket ==
    PfeTurnDone
        => /\ TurnTimePoints =
                  CASE request[1].input.time_horizon \in {"1w", "1m"} ->
                          <<"1d", "1w", "2w", "3w", "1m">>
                    [] request[1].input.time_horizon = "3m" ->
                          <<"1d", "1w", "2w", "1m", "2m", "3m">>
                    [] request[1].input.time_horizon \in {"6m", "1y"} ->
                          <<"1d", "1w", "1m", "3m", "6m", "9m", "1y">>
                    [] OTHER -> LongHorizonPoints(request[1].input.time_horizon)
           /\ IncreasingPoints(TurnTimePoints)

\* a turn under the 2-year horizon, whose list stops at 2y
C23_Witness ==
    /\ PfeTurnDone
    /\ request[1].input.time_horizon = "2y"
    /\ Len(PfeNettingSetDone.trades) >= 1
    /\ TurnTimePoints = <<"1d", "1m", "3m", "6m", "1y", "2y">>

\* C23, as stated: the 3-month horizon shares the list of 6 months and 1 year
C23_ThreeMonthsAsOneYear ==
    PfeTurnDone
        => /\ TurnTimePoints =
                  CASE request[1].input.time_horizon \in {"1w", "1m"} ->
                          <<"1d", "1w", "2w", "3w", "1m">>
                    [] request[1].input.time_horizon \in {"3m", "6m", "1y"} ->
                          <<"1d", "1w", "1m", "3m", "6m", "9m", "1y">>
                    [] OTHER -> LongHorizonPoints(request[1].input.time_horizon)
           /\ IncreasingPoints(TurnTimePoints)

\* C28: for a netting set with PFE >= 0, every point of its exposure profile
\* has potential_future_exposure between 0 and the PFE of the netting set,
\* exactly 0 at a time point at or beyond the horizon, and expected_exposure
\* between 0 and the replacement cost.
C28_ProfileWithinHeadline ==
    (PfeTurnDone /\ TurnLocals.pfe >= 0)
        => \A i \in 1..Len(TurnProfile) :
               /\ TurnProfile[i].potential_future_exposure >= 0
               /\ TurnProfile[i].potential_future_exposure <= TurnLocals.pfe
               /\ time_point_to_years(TurnProfile[i].time_point)
                      >= TIME_HORIZON_YEARS(request[1].input.time_horizon)
                      => TurnProfile[i].potential_future_exposure = 0
               /\ TurnProfile[i].expected_exposure >= 0
               /\ TurnProfile[i].expected_exposure <= TurnLocals.replacement_cost

\* the market values of the trades, summed
SumOfMarketValues(trades) ==
    SumSeq(Tuple([i \in 1..Len(trades) |-> trades[i].market_value]))

\* the collateral after haircut of a list of collateral items
HaircutValue(collateral) ==
    SumSeq(Tuple([i \in 1..Len(collateral) |->
        FMul(SCALE - collateral[i].haircut, collateral[i].amount)]))

\* the values SACCRService.calculate_replacement_cost gives the transactions
SumOfTransactionValues(transactions) ==
    SumValues(Tuple([i \in 1..Len(transactions) |->
                        TransactionValue(transactions[i])]), 0).v

\* C25: the replacement cost of a netting set is max(sum of trade values -
\* collateral value, 0) and never negative; the PFE engine values a trade at
\* its market_value and the collateral at the sum of (1 - haircut) x amount,
\* the SA-CCR service takes the flat collateral amount; with more collateral
\* the replacement cost is never larger.
C25_ReplacementCost ==
    TurnDone
        => /\ TurnLocals.replacement_cost >= 0
           /\ PfeCall
                  => /\ TurnLocals.replacement_cost
                            = Max(SumOfMarketValues(PfeNettingSetDone.trades)
                                  - HaircutValue(PfeNettingSetDone.collateral), 0)
                     /\ \A more \in PfeCollaterals :
                            PFE_calculate_replacement_cost(
                                [PfeNettingSetDone EXCEPT
                                    !.collateral = @ \o more])
                                <= TurnLocals.replacement_cost
           /\ SaccrCall
                  => /\ TurnLocals.replacement_cost
                            = Max(SumOfTransactionValues(TurnNettingSet.transactions)
                                  - TurnNettingSet.collateral, 0)
                     /\ \A more \in RequestCollaterals :
                            SACCR_calculate_replacement_cost(
                                [TurnNettingSet EXCEPT !.collateral = @ + more]).v
                                <= TurnLocals.replacement_cost

\* a netting set of the PFE service whose collateral, after its haircut,
\* leaves a part of the market value uncovered
C25_Witness ==
    /\ PfeTurnDone
    /\ PfeNettingSetDone.collateral # <<>>
    /\ PfeNettingSetDone.collateral[1].haircut > 0
    /\ TurnLocals.replacement_cost > 0
    /\ TurnLocals.replacement_cost < SumOfMarketValues(PfeNettingSetDone.trades)

\* the maturity factor of a transaction: its override, or sqrt(min(maturity, 1))
MaturityFactorOrOverride(transaction) ==
    IF transaction.maturity_factor # None THEN transaction.maturity_factor[1]
    ELSE IF transaction.maturity >= SCALE THEN SCALE
    ELSE FSqrt(transaction.maturity)

\* supervisory delta x notional x maturity factor of the transactions, summed
SumOfEffectiveNotionals(transactions) ==
    SumSeq(Tuple([i \in 1..Len(transactions) |->
        FMul(FMul(SACCR_calculate_supervisory_delta(transactions[i]).v,
                  transactions[i].notional),
             MaturityFactorOrOverride(transactions[i]))]))

\* C24: in the SA-CCR service the add-on of each asset class of a netting
\* set is the supervisory factor of the table times the sum over the
\* transactions of the class of supervisory delta x notional x maturity
\* factor, the maturity factor being the override when there is one and
\* sqrt(min(maturity, 1)) otherwise; the interest-rate swap of notional
\* 1,000,000 and 3 years without overrides has add-on 5,000.
C24_AddOnOfAssetClass ==
    (TurnDone /\ SaccrCall)
        => /\ \A i \in 1..Len(TurnAddOns) :
                  TurnAddOns[i].add_on
                      = FMul(SUPERVISORY_FACTORS(TurnAddOns[i].asset_class),
                             SumOfEffectiveNotionals(
                                 OfAssetClass(TurnNettingSet.transactions,
                                              TurnAddOns[i].asset_class)))
           /\ \A k \in 1..Len(TurnNettingSet.transactions) :
                  \E i \in 1..Len(TurnAddOns) :
                      TurnAddOns[i].asset_class = TurnNettingSet.transactions[k].asset_class
           /\ (/\ Len(TurnNettingSet.transactions) = 1
               /\ TurnNettingSet.transactions[1].asset_class = "interest_rate"
               /\ TurnNettingSet.transactions[1].transaction_type \notin OptionProducts
               /\ TurnNettingSet.transactions[1].notional = 1000 * 1000 * SCALE
               /\ TurnNettingSet.transactions[1].maturity = 3 * SCALE
               /\ TurnNettingSet.transactions[1].supervisory_delta = None
               /\ TurnNettingSet.transactions[1].maturity_factor = None)
                  => TurnAddOns = <<[asset_class |-> "interest_rate",
                                     add_on |-> 5000 * SCALE]>>

\* the turn of the interest-rate swap of notional 1,000,000 and 3 years
C24_Witness ==
    /\ TurnDone /\ SaccrCall
    /\ Len(TurnNettingSet.transactions) = 1
    /\ TurnNettingSet.transactions[1].notional = 1000 * 1000 * SCALE
    /\ TurnNettingSet.transactions[1].maturity = 3 * SCALE
    /\ TurnAddOns[1].add_on = 5000 * SCALE

\* C26: for every netting set the SA-CCR service accepts, whatever the sign
\* of its supervisory-delta overrides, the multiplier lies in [0.05, 1], the
\* PFE between 0 and the total add-on, and the exposure at default is at
\* least the replacement cost.
C26_MultiplierWithinBounds ==
    (TurnDone /\ SaccrCall)
        => /\ TurnLocals.multiplier >= 50
           /\ TurnLocals.multiplier <= SCALE
           /\ TurnLocals.pfe >= 0
           /\ TurnLocals.pfe <= TurnLocals.total_add_on
           /\ TurnLocals.exposure_at_default >= TurnLocals.replacement_cost

\* the netting sets of the input of the call
InputNettingSets ==
    IF request[1].engine = "saccr" THEN request[1].input
    ELSE request[1].input.netting_sets

\* the loop over the netting sets of the call has run to its end, and the
\* total was computed
LoopDone ==
    /\ request # None /\ work # None
    /\ phase \in {"returned", "responded"}
    /\ work[1].next > Len(InputNettingSets)
    /\ request[1].engine = "saccr" => "total_ead" \in DOMAIN work[1].acc

\* the total the call reports, and the figure of a netting set it is the total of
ReportedTotal ==
    CASE request[1].engine = "saccr" ->
             [total |-> work[1].acc.total_ead, of |-> "exposure_at_default"]
      [] request[1].engine = "pfe" ->
             [total |-> work[1].acc.total_pfe, of |-> "pfe"]
      [] request[1].engine = "im" ->
             [total |-> work[1].acc.total_margin, of |-> "margin"]

\* C27: whatever the ids of the netting sets of an accepted input,
\* netting_set_results has one entry per netting set of the input, and the
\* total reported (total_ead, total_pfe, total_margin) is the sum of the
\* figure over the entries of netting_set_results.
C27_OneEntryPerNettingSet ==
    (LoopDone /\ request[1].engine \in {"saccr", "pfe", "im"})
        => /\ Len(work[1].acc.netting_set_results) = Len(InputNettingSets)
           /\ ReportedTotal.total
                  = SumOfResults(work[1].acc.netting_set_results, ReportedTotal.of)

\* the transaction or trade without a supervisory factor and an option style
WithoutUnreadFields(raw) ==
    IF "option_style" \in DOMAIN raw
    THEN [raw EXCEPT !.supervisory_factor = None, !.option_style = Omitted]
    ELSE [raw EXCEPT !.supervisory_factor = None]

\* the request body with these fields left out of every transaction
SaccrBodyWithout(body) ==
    Tuple([i \in 1..Len(body) |->
        [body[i] EXCEPT !.transactions =
            Tuple([k \in 1..Len(body[i].transactions) |->
                      WithoutUnreadFields(body[i].transactions[k])])]])

PfeBodyWithout(body) ==
    [body EXCEPT !.netting_sets =
        Tuple([i \in 1..Len(body.netting_sets) |->
            [body.netting_sets[i] EXCEPT !.trades =
                Tuple([k \in 1..Len(body.netting_sets[i].trades) |->
                          WithoutUnreadFields(body.netting_sets[i].trades[k])])]])]

\* what a request of the SA-CCR service with this body ends in
SaccrOutcome(body) ==
    IF SACCRInputStatus(body) # "ok" THEN [status |-> SACCRInputStatus(body)]
    ELSE calculate_saccr(SACCRInput(body))

\* what a request of the PFE service with this body ends in
PfeOutcome(body) ==
    IF PFEInputStatus(body) # "ok" THEN [status |-> PFEInputStatus(body)]
    ELSE calculate_pfe(body)

\* C30: the supervisory_factor and option_style fields of a transaction or
\* trade have no influence on any output: a SA-CCR or PFE request ends as the
\* request does whose body differs only in that it lacks these fields.
C30_UnreadFieldsWithoutInfluence ==
    (request # None /\ outcome # None /\ phase = "returned")
        => /\ request[1].engine = "saccr"
                  => outcome[1] = SaccrOutcome(SaccrBodyWithout(request[1].body))
           /\ request[1].engine = "pfe"
                  => outcome[1] = PfeOutcome(PfeBodyWithout(request[1].body))

\* ------------------------------------------------------------------------
\* Properties of the initial margin service
\* ------------------------------------------------------------------------
MarginCall == request # None /\ request[1].engine = "im"

\* a turn of calculate_initial_margin's loop was taken under the method
MarginTurnDone(calculation_method) ==
    /\ MarginCall /\ TurnDone
    /\ request[1].input.calculation_method = calculation_method

\* the netting set the last turn of calculate_initial_margin processed
MarginNettingSetDone == request[1].input.netting_sets[work[1].next - 1]

\* the netting set with the maturity of trade i replaced by maturities[i]
WithMaturities(netting_set, maturities) ==
    [netting_set EXCEPT !.trades =
        Tuple([i \in 1..Len(netting_set.trades) |->
                  [netting_set.trades[i] EXCEPT !.maturity = maturities[i]]])]

\* the sum of |notional| over the trades of the asset class
ClassNotional(trades, asset_class) ==
    SumSeq(Tuple([i \in 1..Len(trades) |->
        IF trades[i].asset_class = asset_class THEN Abs(trades[i].notional) ELSE 0]))

\* C18: under the grid method the margin of every asset class of a netting
\* set is the sum of |notional| of the class's trades times the class's
\* "2-5" threshold, whatever the maturities of the trades; one equity trade
\* of notional 1,000,000 and maturity 1 year gives 80,000.
C18_GridMarginIgnoresMaturity ==
    MarginTurnDone("grid")
        => /\ \A k \in 1..Len(TurnLocals.margins) :
                  TurnLocals.margins[k].value
                      = FMul(ClassNotional(MarginNettingSetDone.trades,
                                           TurnLocals.margins[k].key),
                             GRID_THRESHOLDS(TurnLocals.margins[k].key, "2-5"))
           /\ \A maturities \in [1..Len(MarginNettingSetDone.trades) -> RequestMaturities] :
                  calculate_grid_margin(WithMaturities(MarginNettingSetDone, maturities)).margins
                      = TurnLocals.margins
           /\ MarginNettingSetDone.trades = <<MillionEquityTrade>>
                  => TurnLocals.margin = 80 * 1000 * SCALE

\* the equity trade of 1,000,000 with maturity 1 year went through a turn of
\* the grid method and got the margin 80,000
C18_Witness ==
    /\ MarginTurnDone("grid")
    /\ MarginNettingSetDone.trades = <<MillionEquityTrade>>
    /\ get_maturity_bucket(MillionEquityTrade.maturity) = "0-2"
    /\ TurnLocals.margin = 80 * 1000 * SCALE

\* the netting set without its trades that are no option and no swaption
OptionsOnly(netting_set) ==
    [netting_set EXCEPT !.trades =
        SelectSeq(@, LAMBDA t : t.product \in {"option", "swaption"})]

\* the netting sets calculate_initial_margin has processed so far
MarginProcessed == SubSeq(request[1].input.netting_sets, 1, work[1].next - 1)

\* the component summed over what calculate_simm_margin gives for the
\* option and swaption trades alone of each processed netting set
OptionComponent(component) ==
    SumSeq(Tuple([i \in 1..Len(MarginProcessed) |->
        calculate_simm_margin(OptionsOnly(MarginProcessed[i])).sensitivity[1][component]]))

\* C19: under the SIMM method the running sensitivity breakdown has
\* delta + vega + curvature = total_margin = the sum of the per-asset-class
\* margins, its vega and curvature come from the option and swaption trades
\* alone, and the result returned reports these figures.
C19_SimmBreakdownAddsUp ==
    (MarginTurnDone("simm"))
        => /\ work[1].acc.sensitivity_breakdown # None
           /\ work[1].acc.sensitivity_breakdown[1].delta
                  + work[1].acc.sensitivity_breakdown[1].vega
                  + work[1].acc.sensitivity_breakdown[1].curvature
                  = work[1].acc.total_margin
           /\ work[1].acc.total_margin = SumOfMargins(work[1].acc.all_margins)
           /\ work[1].acc.sensitivity_breakdown[1].vega = OptionComponent("vega")
           /\ work[1].acc.sensitivity_breakdown[1].curvature = OptionComponent("curvature")
           /\ phase = "returned"
                  => /\ outcome[1].status = "ok"
                     /\ outcome[1].total_margin = work[1].acc.total_margin
                     /\ outcome[1].sensitivity_breakdown = work[1].acc.sensitivity_breakdown
                     /\ SumSeq(Tuple([i \in 1..Len(outcome[1].asset_class_breakdown) |->
                            outcome[1].asset_class_breakdown[i].margin]))
                            = outcome[1].total_margin

\* a SIMM result over two netting sets, one holding an option with vega and
\* curvature of its own, the other a swap that names a vega as well
C19_Witness ==
    /\ MarginTurnDone("simm")
    /\ phase = "returned"
    /\ Len(MarginProcessed) = 2
    /\ \E i, j \in 1..2 :
           /\ i # j
           /\ Len(MarginProcessed[i].trades) = 1
           /\ Len(MarginProcessed[j].trades) = 1
           /\ MarginProcessed[i].trades[1].product = "option"
           /\ MarginProcessed[i].trades[1].vega # None
           /\ MarginProcessed[j].trades[1].product = "swap"
           /\ MarginProcessed[j].trades[1].vega # None
    /\ outcome[1].sensitivity_breakdown[1].vega > 0
    /\ outcome[1].sensitivity_breakdown[1].delta > 0

\* ------------------------------------------------------------------------
\* Properties of concurrent invocations
\* ------------------------------------------------------------------------
\* what the routine returns for input in a process that runs nothing else
RunAlone(input) == BaseVar(input, FreshRng).result

\* C2: under every interleaving of the seed and draw steps of concurrent
\* Historical / Monte Carlo invocations, each invocation returns exactly the
\* result it returns when run alone on the same input.
C2_ConcurrentAsAlone ==
    \A t \in Threads :
        threads[t].pc = "done" => threads[t].result = RunAlone(threads[t].input)

====
